---- MODULE Spec2Model ----
(***************************************************************************)
(* Trip lifecycle and reward ledger of the crowd-sourced bus tracker.      *)
(*                                                                         *)
(* The model follows backend/src/controllers/tripController.ts             *)
(* (startTrip, updateLocation, endTrip) and creditController.awardCredits. *)
(* Every handler is an async function: it is split at its awaits (each     *)
(* pool.query is one step against the database), so that two requests of   *)
(* the same rider can interleave exactly where the Node event loop lets    *)
(* them.  The database tables are the variables active_trips, users and    *)
(* credit_transactions; the socket.io broadcast is the sequence events.    *)
(*                                                                         *)
(* Time is in seconds.  Coordinates are integers in units of the column    *)
(* resolution (DECIMAL(10,8) / DECIMAL(11,8)); 0 is a falsy coordinate.    *)
(***************************************************************************)
EXTENDS Integers, Sequences, FiniteSets, TLC

VARIABLES
    now,                  \* wall clock (Date.now() of the server and NOW() of the database)
    users,                \* table users: rider id -> [credits]
    active_trips,         \* table active_trips: sequence of rows, row i has id i (SERIAL)
    credit_transactions,  \* table credit_transactions: sequence of rows (append only)
    events,               \* what getIo().emit has broadcast, in order
    pc,                   \* per request slot: the await the handler is suspended at
    local,                \* per request slot: the handler's local variables
    res,                  \* per request slot: the HTTP response sent
    pre,                  \* per request slot: the tables as they were when the request arrived
    awardLog,             \* history: which trip each awardCredits call was made for, and when
    nreq,                 \* number of requests received so far
    routes,               \* tables routes and stops: route id -> row with its stops in stop_order
    route_traces,         \* table route_traces: sequence of rows
    reports,              \* table reports: sequence of rows, row i has id i (SERIAL)
    client,               \* the rider's CatchBusMode component: its state, refs and timers
    osrm                  \* one call of fetchOSRMGeometry: its arguments, locals and result

vars == <<now, users, active_trips, credit_transactions, events, pc, local, res, pre, awardLog, nreq,
          routes, route_traces, reports, client, osrm>>

----------------------------------------------------------------------------
(* Bounds *)

MaxRequests == 4
MaxTime == 120
MaxLedgerRequests == 3
MaxStops == 3
MaxTraceRequests == 3
MaxReportRequests == 3   \* report requests in one behaviour
MaxOsrmStops == 3        \* stops passed to one call of fetchOSRMGeometry
MaxOutOfRouteSeconds == 120   \* the out-of-route counter is followed up to here
MaxInactiveSeconds == 660     \* the inactivity counter is followed up to here
MaxClock == 360    \* the client's clock stops here (seconds)
MaxMounts == 3     \* the component is mounted at most this often
MaxReportTime == 1801    \* the clock of the report model stops here (seconds)

(* Program constants *)

NULL == -1
CREDIT_WINDOW == 60
LOCATION_CREDIT == 1
COMPLETION_BONUS == 10
WELCOME_CREDITS == 50
LOCATION_INTERVAL == 30
TRIAL_SECONDS == 1209600

Riders == {1}
Procs == {"a", "b"}
\* request bodies: { route_id?, latitude, longitude }; the last one lacks a usable latitude
StartBodies == {[route_id |-> 1, latitude |-> 1, longitude |-> 1],
                [route_id |-> NULL, latitude |-> 0, longitude |-> 2]}
LocationBodies == {[latitude |-> 2, longitude |-> 2],
                   [latitude |-> 2, longitude |-> 0]}
TickSteps == {LOCATION_INTERVAL, CREDIT_WINDOW - 1}

NoLocal == [op |-> "none", userId |-> NULL, latitude |-> 0, longitude |-> 0,
            route_id |-> NULL, trip |-> NULL, shouldAwardCredit |-> FALSE,
            creditsEarned |-> 0, amount |-> 0, type |-> "", description |-> "",
            ret |-> "idle", updated |-> NULL, credits |-> 0]
NoRes == [status |-> 0]
NoPre == [set |-> FALSE]

\* CatchBusMode before any trip: useState / useRef initial values (view 'list')
NoClient ==
    [view |-> "list", activeTrip |-> FALSE, timers |-> {}, userPosition |-> NULL,
     routeStops |-> {}, outOfRouteSeconds |-> 0, ignoreDeviationUntil |-> 0,
     deviationAlert |-> FALSE, lastPosition |-> NULL, inactiveSeconds |-> 0,
     inactiveAlert |-> FALSE, pending |-> {},
     destination |-> NULL, role |-> "free", alertActivated |-> FALSE,
     prevDistToDest |-> NULL, dropoffPrompt |-> FALSE, dropoffBanner |-> "none",
     mounted |-> TRUE, mounts |-> 1, deadLoads |-> 0,
     orphans |-> [n \in {"location", "clock", "gpsCheck", "monitor1", "monitor2",
                         "monitor3", "monitor4", "autoClose"} |-> 0],
     serverTrip |-> FALSE, serverDestination |-> NULL,
     farRun |-> 0, stillRun |-> 0, sent |-> "none", closedBy |-> "none",
     answer |-> "none", optedIn |-> FALSE, silencedAt |-> NULL]

\* no call of fetchOSRMGeometry yet
NoOsrm ==
    [phase |-> "idle", stops |-> <<>>, valid |-> <<>>, i |-> 0, allPoints |-> <<>>,
     hadFallbacks |-> FALSE, result |-> [null |-> TRUE, points |-> <<>>, hadFallbacks |-> FALSE],
     outcomes |-> <<>>]

----------------------------------------------------------------------------
(* Helpers over the tables *)

\* (variant: the WHERE clause without "AND is_active = true")
ActiveTripIds_AnyTrip(trips, u) ==
    {i \in 1..Len(trips) : trips[i].user_id = u}

\* SELECT ... FROM active_trips WHERE user_id = $1 AND is_active = true
ActiveTripIds(trips, u) ==
    {i \in 1..Len(trips) : trips[i].user_id = u /\ trips[i].is_active}

\* the snapshot taken when a request arrives
Snapshot ==
    [set |-> TRUE, now |-> now, users |-> users, active_trips |-> active_trips,
     credit_transactions |-> credit_transactions, events |-> events, awardLog |-> awardLog,
     reports |-> reports]

\* parseFloat of a DECIMAL column value / of a request field that is a number
parseFloat(x) == x

\* if (!latitude || !longitude)
MissingCoords(lat, lng) == lat = 0 \/ lng = 0

\* (variant: the window taken as the client's 30 s reporting interval)
ShouldAwardCredit_HalfWindow(trip, t) ==
    \/ trip.last_location_at = NULL
    \/ t - trip.last_location_at >= LOCATION_INTERVAL

\* (variant: "> 60000" in place of ">= 60000")
ShouldAwardCredit_Strict(trip, t) ==
    \/ trip.last_location_at = NULL
    \/ t - trip.last_location_at > CREDIT_WINDOW

\* trip.last_location_at === null || new Date().getTime() - last_location_at >= 60000
ShouldAwardCredit(trip, t) ==
    \/ trip.last_location_at = NULL
    \/ t - trip.last_location_at >= CREDIT_WINDOW

Quiescent == \A p \in Procs : pc[p] = "idle"

\* INSERT INTO users (..., credits, is_premium, trial_expires_at)
\*   VALUES (..., 50, true, NOW() + INTERVAL '14 days'); premium_expires_at stays NULL
NewUser(t) ==
    [credits |-> WELCOME_CREDITS, is_premium |-> TRUE,
     trial_expires_at |-> t + TRIAL_SECONDS, premium_expires_at |-> NULL]

----------------------------------------------------------------------------
Init ==
    /\ now = 0
    /\ users = [u \in {} |-> NewUser(0)]
    /\ active_trips = <<>>
    /\ credit_transactions = <<>>
    /\ events = <<>>
    /\ pc = [p \in Procs |-> "idle"]
    /\ local = [p \in Procs |-> NoLocal]
    /\ res = [p \in Procs |-> NoRes]
    /\ pre = [p \in Procs |-> NoPre]
    /\ awardLog = <<>>
    /\ nreq = 0
    /\ routes = <<>>
    /\ route_traces = <<>>
    /\ reports = <<>>
    /\ client = NoClient
    /\ osrm = NoOsrm

\* authController.register: the rider row with 50 credits and the welcome transaction
Register(u) ==
    /\ u \notin DOMAIN users
    /\ users' = [x \in DOMAIN users \cup {u} |->
                    IF x = u THEN NewUser(now) ELSE users[x]]
    /\ credit_transactions' = Append(credit_transactions,
            [user_id |-> u, amount |-> WELCOME_CREDITS, type |-> "bonus",
             description |-> "Creditos de bienvenida", created_at |-> now])
    /\ UNCHANGED <<now, active_trips, events, pc, local, res, pre, awardLog, nreq, routes, route_traces, reports, client, osrm>>

\* the clock advances; a handler's database round trips take milliseconds, below
\* the resolution of this clock, so no time passes while a handler is in flight
Tick(d) ==
    /\ Quiescent
    /\ now + d <= MaxTime
    /\ now' = now + d
    /\ UNCHANGED <<users, active_trips, credit_transactions, events, pc, local, res, pre, awardLog, nreq, routes, route_traces, reports, client, osrm>>

----------------------------------------------------------------------------
(* startTrip *)

StartTripBegin(p, u, body) ==
    /\ pc[p] = "idle"
    /\ u \in DOMAIN users
    /\ nreq < MaxRequests
    /\ nreq' = nreq + 1
    /\ pre' = [pre EXCEPT ![p] = Snapshot]
    /\ local' = [local EXCEPT ![p] = [NoLocal EXCEPT !.op = "start", !.userId = u,
                    !.latitude = body.latitude, !.longitude = body.longitude,
                    !.route_id = body.route_id]]
    /\ IF MissingCoords(body.latitude, body.longitude)
         THEN /\ res' = [res EXCEPT ![p] = [status |-> 400, message |-> "coords required"]]
              /\ pc' = [pc EXCEPT ![p] = "done"]
         ELSE /\ res' = res
              /\ pc' = [pc EXCEPT ![p] = "start_select"]
    /\ UNCHANGED <<now, users, active_trips, credit_transactions, events, awardLog, routes, route_traces, reports, client, osrm>>

\* (variant: the result of the SELECT is not looked at)
StartTripSelect_SkipCheck(p) ==
    /\ pc[p] = "start_select"
    /\ pc' = [pc EXCEPT ![p] = "start_insert"]
    /\ UNCHANGED <<now, users, active_trips, credit_transactions, events, local, res, pre, awardLog, nreq, routes, route_traces, reports, client, osrm>>

StartTripSelect(p) ==
    /\ pc[p] = "start_select"
    /\ IF ActiveTripIds(active_trips, local[p].userId) # {}
         THEN /\ res' = [res EXCEPT ![p] = [status |-> 400, message |-> "active trip exists"]]
              /\ pc' = [pc EXCEPT ![p] = "done"]
         ELSE /\ res' = res
              /\ pc' = [pc EXCEPT ![p] = "start_insert"]
    /\ UNCHANGED <<now, users, active_trips, credit_transactions, events, local, pre, awardLog, nreq, routes, route_traces, reports, client, osrm>>

NewTrip(id, u, route, lat, lng, t) ==
    [id |-> id, user_id |-> u, route_id |-> route,
     current_latitude |-> lat, current_longitude |-> lng,
     destination_stop_id |-> NULL, started_at |-> t, last_location_at |-> NULL,
     ended_at |-> NULL, credits_earned |-> 0, is_active |-> TRUE]

StartTripInsert(p) ==
    /\ pc[p] = "start_insert"
    /\ LET row == NewTrip(Len(active_trips) + 1, local[p].userId, local[p].route_id,
                          local[p].latitude, local[p].longitude, now)
       IN /\ active_trips' = Append(active_trips, row)
          /\ local' = [local EXCEPT ![p].trip = row]
    /\ pc' = [pc EXCEPT ![p] = "start_respond"]
    /\ UNCHANGED <<now, users, credit_transactions, events, res, pre, awardLog, nreq, routes, route_traces, reports, client, osrm>>

StartTripRespond(p) ==
    /\ pc[p] = "start_respond"
    /\ LET trip == local[p].trip
       IN /\ events' = Append(events,
                [name |-> "bus:joined", tripId |-> trip.id, routeId |-> trip.route_id,
                 latitude |-> parseFloat(trip.current_latitude),
                 longitude |-> parseFloat(trip.current_longitude)])
          /\ res' = [res EXCEPT ![p] = [status |-> 201, trip |-> trip]]
    /\ pc' = [pc EXCEPT ![p] = "done"]
    /\ UNCHANGED <<now, users, active_trips, credit_transactions, local, pre, awardLog, nreq, routes, route_traces, reports, client, osrm>>

----------------------------------------------------------------------------
(* creditController.awardCredits: two statements, two awaits *)

\* UPDATE users SET credits = credits + $1 WHERE id = $2
AwardCreditsUpdate(p) ==
    /\ pc[p] = "award_update"
    /\ users' = [users EXCEPT ![local[p].userId].credits = @ + local[p].amount]
    /\ pc' = [pc EXCEPT ![p] = "award_insert"]
    /\ UNCHANGED <<now, active_trips, credit_transactions, events, local, res, pre, awardLog, nreq, routes, route_traces, reports, client, osrm>>

\* INSERT INTO credit_transactions (user_id, amount, type, description)
AwardCreditsInsert(p) ==
    /\ pc[p] = "award_insert"
    /\ credit_transactions' = Append(credit_transactions,
            [user_id |-> local[p].userId, amount |-> local[p].amount, type |-> local[p].type,
             description |-> local[p].description, created_at |-> now])
    /\ awardLog' = Append(awardLog,
            [tripId |-> local[p].trip.id, amount |-> local[p].amount, at |-> now])
    /\ pc' = [pc EXCEPT ![p] = local[p].ret]
    /\ UNCHANGED <<now, users, active_trips, events, local, res, pre, nreq, routes, route_traces, reports, client, osrm>>

----------------------------------------------------------------------------
(* updateLocation *)

UpdateLocationBegin(p, u, body) ==
    /\ pc[p] = "idle"
    /\ u \in DOMAIN users
    /\ nreq < MaxRequests
    /\ nreq' = nreq + 1
    /\ pre' = [pre EXCEPT ![p] = Snapshot]
    /\ local' = [local EXCEPT ![p] = [NoLocal EXCEPT !.op = "location", !.userId = u,
                    !.latitude = body.latitude, !.longitude = body.longitude]]
    /\ IF MissingCoords(body.latitude, body.longitude)
         THEN /\ res' = [res EXCEPT ![p] = [status |-> 400, message |-> "coords required"]]
              /\ pc' = [pc EXCEPT ![p] = "done"]
         ELSE /\ res' = res
              /\ pc' = [pc EXCEPT ![p] = "location_select"]
    /\ UNCHANGED <<now, users, active_trips, credit_transactions, events, awardLog, routes, route_traces, reports, client, osrm>>

\* the SELECT, then everything up to the next await (awardCredits or the UPDATE)
UpdateLocationSelect(p) ==
    /\ pc[p] = "location_select"
    /\ IF ActiveTripIds(active_trips, local[p].userId) = {}
         THEN /\ res' = [res EXCEPT ![p] = [status |-> 404, message |-> "no active trip"]]
              /\ pc' = [pc EXCEPT ![p] = "done"]
              /\ local' = local
         ELSE \E i \in ActiveTripIds(active_trips, local[p].userId) :   \* rows[0]
                LET trip == active_trips[i]
                    shouldAwardCredit == ShouldAwardCredit(trip, now)
                IN /\ res' = res
                   /\ IF shouldAwardCredit
                        THEN /\ local' = [local EXCEPT ![p].trip = trip,
                                    ![p].shouldAwardCredit = TRUE,
                                    ![p].creditsEarned = trip.credits_earned + LOCATION_CREDIT,
                                    ![p].amount = LOCATION_CREDIT, ![p].type = "earn",
                                    ![p].description = "Transmision de ubicacion en bus",
                                    ![p].ret = "location_update"]
                             /\ pc' = [pc EXCEPT ![p] = "award_update"]
                        ELSE /\ local' = [local EXCEPT ![p].trip = trip,
                                    ![p].shouldAwardCredit = FALSE,
                                    ![p].creditsEarned = trip.credits_earned]
                             /\ pc' = [pc EXCEPT ![p] = "location_update"]
    /\ UNCHANGED <<now, users, active_trips, credit_transactions, events, pre, awardLog, nreq, routes, route_traces, reports, client, osrm>>

\* UPDATE active_trips SET current_latitude, current_longitude, last_location_at = NOW(),
\*   credits_earned = $3 WHERE id = $4 RETURNING *
UpdateLocationUpdate(p) ==
    /\ pc[p] = "location_update"
    /\ LET id == local[p].trip.id
           row == [active_trips[id] EXCEPT !.current_latitude = local[p].latitude,
                                           !.current_longitude = local[p].longitude,
                                           !.last_location_at = now,
                                           !.credits_earned = local[p].creditsEarned]
       IN /\ active_trips' = [active_trips EXCEPT ![id] = row]
          /\ local' = [local EXCEPT ![p].updated = row.credits_earned]
    /\ pc' = [pc EXCEPT ![p] = "location_respond"]
    /\ UNCHANGED <<now, users, credit_transactions, events, res, pre, awardLog, nreq, routes, route_traces, reports, client, osrm>>

UpdateLocationRespond(p) ==
    /\ pc[p] = "location_respond"
    /\ events' = Append(events,
            [name |-> "bus:location", tripId |-> local[p].trip.id,
             routeId |-> local[p].trip.route_id,
             latitude |-> parseFloat(local[p].latitude),
             longitude |-> parseFloat(local[p].longitude)])
    /\ res' = [res EXCEPT ![p] = [status |-> 200, credited |-> local[p].shouldAwardCredit,
                                  creditsEarned |-> local[p].updated]]
    /\ pc' = [pc EXCEPT ![p] = "done"]
    /\ UNCHANGED <<now, users, active_trips, credit_transactions, local, pre, awardLog, nreq, routes, route_traces, reports, client, osrm>>

----------------------------------------------------------------------------
(* endTrip *)

EndTripBegin(p, u) ==
    /\ pc[p] = "idle"
    /\ u \in DOMAIN users
    /\ nreq < MaxRequests
    /\ nreq' = nreq + 1
    /\ pre' = [pre EXCEPT ![p] = Snapshot]
    /\ local' = [local EXCEPT ![p] = [NoLocal EXCEPT !.op = "end", !.userId = u]]
    /\ pc' = [pc EXCEPT ![p] = "end_select"]
    /\ UNCHANGED <<now, users, active_trips, credit_transactions, events, res, awardLog, routes, route_traces, reports, client, osrm>>

EndTripSelect(p) ==
    /\ pc[p] = "end_select"
    /\ IF ActiveTripIds(active_trips, local[p].userId) = {}
         THEN /\ res' = [res EXCEPT ![p] = [status |-> 404, message |-> "no active trip"]]
              /\ pc' = [pc EXCEPT ![p] = "done"]
              /\ local' = local
         ELSE \E i \in ActiveTripIds(active_trips, local[p].userId) :   \* rows[0]
                /\ res' = res
                /\ local' = [local EXCEPT ![p].trip = active_trips[i],
                                ![p].amount = COMPLETION_BONUS, ![p].type = "earn",
                                ![p].description = "Viaje completado",
                                ![p].ret = "end_update"]
                /\ pc' = [pc EXCEPT ![p] = "award_update"]
    /\ UNCHANGED <<now, users, active_trips, credit_transactions, events, pre, awardLog, nreq, routes, route_traces, reports, client, osrm>>

\* (variant: credits_earned = 10 in place of credits_earned + 10)
EndTripUpdate_Overwrite(p) ==
    /\ pc[p] = "end_update"
    /\ LET id == local[p].trip.id
           row == [active_trips[id] EXCEPT !.is_active = FALSE,
                                           !.ended_at = now,
                                           !.credits_earned = COMPLETION_BONUS]
       IN /\ active_trips' = [active_trips EXCEPT ![id] = row]
          /\ local' = [local EXCEPT ![p].updated = row.credits_earned]
    /\ pc' = [pc EXCEPT ![p] = "end_respond"]
    /\ UNCHANGED <<now, users, credit_transactions, events, res, pre, awardLog, nreq, routes, route_traces, reports, client, osrm>>

\* (variant: the UPDATE does not clear is_active)
EndTripUpdate_StaysActive(p) ==
    /\ pc[p] = "end_update"
    /\ LET id == local[p].trip.id
           row == [active_trips[id] EXCEPT !.ended_at = now,
                                           !.credits_earned = @ + COMPLETION_BONUS]
       IN /\ active_trips' = [active_trips EXCEPT ![id] = row]
          /\ local' = [local EXCEPT ![p].updated = row.credits_earned]
    /\ pc' = [pc EXCEPT ![p] = "end_respond"]
    /\ UNCHANGED <<now, users, credit_transactions, events, res, pre, awardLog, nreq, routes, route_traces, reports, client, osrm>>

\* UPDATE active_trips SET is_active = false, ended_at = NOW(),
\*   credits_earned = credits_earned + 10 WHERE id = $1 RETURNING *
EndTripUpdate(p) ==
    /\ pc[p] = "end_update"
    /\ LET id == local[p].trip.id
           row == [active_trips[id] EXCEPT !.is_active = FALSE,
                                           !.ended_at = now,
                                           !.credits_earned = @ + COMPLETION_BONUS]
       IN /\ active_trips' = [active_trips EXCEPT ![id] = row]
          /\ local' = [local EXCEPT ![p].updated = row.credits_earned]
    /\ pc' = [pc EXCEPT ![p] = "end_respond"]
    /\ UNCHANGED <<now, users, credit_transactions, events, res, pre, awardLog, nreq, routes, route_traces, reports, client, osrm>>

\* the UPDATE of active_trips rejects (connection lost, statement timeout): the
\* catch block answers 500; what awardCredits wrote before stays written
EndTripUpdateFails(p) ==
    /\ pc[p] = "end_update"
    /\ res' = [res EXCEPT ![p] = [status |-> 500, message |-> "Error interno del servidor"]]
    /\ pc' = [pc EXCEPT ![p] = "done"]
    /\ UNCHANGED <<now, users, active_trips, credit_transactions, events, local, pre, awardLog, nreq, routes, route_traces, reports, client, osrm>>

EndTripRespond(p) ==
    /\ pc[p] = "end_respond"
    /\ events' = Append(events,
            [name |-> "bus:left", tripId |-> local[p].trip.id,
             routeId |-> local[p].trip.route_id])
    /\ res' = [res EXCEPT ![p] = [status |-> 200, tripId |-> local[p].trip.id,
                                  totalCreditsEarned |-> local[p].updated]]
    /\ pc' = [pc EXCEPT ![p] = "done"]
    /\ UNCHANGED <<now, users, active_trips, credit_transactions, local, pre, awardLog, nreq, routes, route_traces, reports, client, osrm>>

----------------------------------------------------------------------------
(* the response has been delivered; the slot is free for the next request *)
Close(p) ==
    /\ pc[p] = "done"
    /\ pc' = [pc EXCEPT ![p] = "idle"]
    /\ local' = [local EXCEPT ![p] = NoLocal]
    /\ res' = [res EXCEPT ![p] = NoRes]
    /\ pre' = [pre EXCEPT ![p] = NoPre]
    /\ UNCHANGED <<now, users, active_trips, credit_transactions, events, awardLog, nreq, routes, route_traces, reports, client, osrm>>

\* the steps of the handlers in flight
Step(p) ==
    \/ StartTripSelect(p)
    \/ StartTripInsert(p)
    \/ StartTripRespond(p)
    \/ UpdateLocationSelect(p)
    \/ UpdateLocationUpdate(p)
    \/ UpdateLocationRespond(p)
    \/ EndTripSelect(p)
    \/ EndTripUpdate(p)
    \/ EndTripRespond(p)
    \/ AwardCreditsUpdate(p)
    \/ AwardCreditsInsert(p)
    \/ Close(p)

\* a request arrives
Arrive(p) ==
    \/ \E u \in Riders, body \in StartBodies : StartTripBegin(p, u, body)
    \/ \E u \in Riders, body \in LocationBodies : UpdateLocationBegin(p, u, body)
    \/ \E u \in Riders : EndTripBegin(p, u)

\* requests are handled concurrently: a request may arrive while other handlers
\* are suspended at an await
Next ==
    \/ \E u \in Riders : Register(u)
    \/ \E d \in TickSteps : Tick(d)
    \/ \E p \in Procs : Arrive(p)
    \/ \E p \in Procs : Step(p)

Spec == Init /\ [][Next]_vars

\* requests handled one after another: a request arrives only when no handler
\* is in flight
SeqNext ==
    \/ Quiescent /\ \E u \in Riders : Register(u)
    \/ \E d \in TickSteps : Tick(d)
    \/ Quiescent /\ \E p \in Procs : Arrive(p)
    \/ \E p \in Procs : Step(p)

SeqSpec == Init /\ [][SeqNext]_vars

\* requests handled one after another, and the database may fail the
\* deactivating UPDATE of endTrip
FailNext ==
    \/ SeqNext
    \/ \E p \in Procs : EndTripUpdateFails(p)

FailSpec == Init /\ [][FailNext]_vars

----------------------------------------------------------------------------
(* Reward ledger: register, spendCredits, requireCredits, updateUserRole   *)

\* request bodies of POST /api/credits/spend: { amount, feature, description }
SpendBodies == {[amount |-> 0], [amount |-> 30], [amount |-> 60]}
\* the cost a route is mounted with: requireCredits(cost, description)
RequireCosts == {30}
Roles == {"free", "premium"}

\* user.is_premium && (user.premium_expires_at > new Date() || user.trial_expires_at > new Date())
PremiumActive(user, t) ==
    /\ user.is_premium
    /\ \/ (user.premium_expires_at # NULL /\ user.premium_expires_at > t)
       \/ (user.trial_expires_at # NULL /\ user.trial_expires_at > t)

\* (variant: the balance is not compared with the amount)
InsufficientCredits_NoCheck(credits, amount) == FALSE

\* if (user.credits < amount)
InsufficientCredits(credits, amount) == credits < amount

\* the rider holds a token: both statements of register have run
HasToken(u) ==
    /\ u \in DOMAIN users
    /\ \A q \in Procs : ~(pc[q] = "register_bonus" /\ local[q].userId = u)

\* register: SELECT id FROM users WHERE email = $1, then bcrypt.hash
RegisterBegin(p, u) ==
    /\ pc[p] = "idle"
    /\ pre' = [pre EXCEPT ![p] = Snapshot]
    /\ local' = [local EXCEPT ![p] = [NoLocal EXCEPT !.op = "register", !.userId = u]]
    /\ IF u \in DOMAIN users
         THEN /\ res' = [res EXCEPT ![p] = [status |-> 400, message |-> "email registered"]]
              /\ pc' = [pc EXCEPT ![p] = "done"]
         ELSE /\ res' = res
              /\ pc' = [pc EXCEPT ![p] = "register_user"]
    /\ UNCHANGED <<now, users, active_trips, credit_transactions, events, awardLog, nreq, routes, route_traces, reports, client, osrm>>

\* INSERT INTO users ... RETURNING; the UNIQUE constraint on email rejects a second row
RegisterInsertUser(p) ==
    /\ pc[p] = "register_user"
    /\ LET u == local[p].userId
       IN IF u \in DOMAIN users
            THEN /\ res' = [res EXCEPT ![p] = [status |-> 500, message |-> "server error"]]
                 /\ pc' = [pc EXCEPT ![p] = "done"]
                 /\ users' = users
            ELSE /\ users' = [x \in DOMAIN users \cup {u} |->
                                IF x = u THEN NewUser(now) ELSE users[x]]
                 /\ pc' = [pc EXCEPT ![p] = "register_bonus"]
                 /\ res' = res
    /\ UNCHANGED <<now, active_trips, credit_transactions, events, local, pre, awardLog, nreq, routes, route_traces, reports, client, osrm>>

\* INSERT INTO credit_transactions VALUES ($1, 50, 'bonus', 'Creditos de bienvenida'); 201
RegisterInsertBonus(p) ==
    /\ pc[p] = "register_bonus"
    /\ credit_transactions' = Append(credit_transactions,
            [user_id |-> local[p].userId, amount |-> WELCOME_CREDITS, type |-> "bonus",
             description |-> "Creditos de bienvenida", created_at |-> now])
    /\ res' = [res EXCEPT ![p] = [status |-> 201, credits |-> WELCOME_CREDITS]]
    /\ pc' = [pc EXCEPT ![p] = "done"]
    /\ UNCHANGED <<now, users, active_trips, events, local, pre, awardLog, nreq, routes, route_traces, reports, client, osrm>>

\* adminController.updateUserRole: is_premium follows the role
UpdateUserRole(u, role) ==
    /\ u \in DOMAIN users
    /\ users[u].is_premium # (role = "premium")
    /\ users' = [users EXCEPT ![u].is_premium = (role = "premium")]
    /\ UNCHANGED <<now, active_trips, credit_transactions, events, pc, local, res, pre, awardLog, nreq, routes, route_traces, reports, client, osrm>>

\* the 14-day trial runs out
TrialExpires ==
    /\ Quiescent
    /\ \E u \in DOMAIN users : users[u].trial_expires_at > now
    /\ now' = now + TRIAL_SECONDS
    /\ UNCHANGED <<users, active_trips, credit_transactions, events, pc, local, res, pre, awardLog, nreq, routes, route_traces, reports, client, osrm>>

(* spendCredits *)

SpendCreditsBegin(p, u, body) ==
    /\ pc[p] = "idle"
    /\ u \in DOMAIN users
    /\ nreq < MaxRequests
    /\ nreq' = nreq + 1
    /\ pre' = [pre EXCEPT ![p] = Snapshot]
    /\ local' = [local EXCEPT ![p] = [NoLocal EXCEPT !.op = "spend", !.userId = u,
                    !.amount = body.amount, !.type = "spend", !.description = "feature"]]
    /\ IF body.amount <= 0
         THEN /\ res' = [res EXCEPT ![p] = [status |-> 400, message |-> "amount must be positive"]]
              /\ pc' = [pc EXCEPT ![p] = "done"]
         ELSE /\ res' = res
              /\ pc' = [pc EXCEPT ![p] = "spend_select"]
    /\ UNCHANGED <<now, users, active_trips, credit_transactions, events, awardLog, routes, route_traces, reports, client, osrm>>

\* SELECT credits, is_premium, ... FROM users WHERE id = $1, then the two checks
SpendCreditsSelect(p) ==
    /\ pc[p] = "spend_select"
    /\ LET user == users[local[p].userId]
       IN IF PremiumActive(user, now)
            THEN /\ res' = [res EXCEPT ![p] = [status |-> 200, credits_used |-> 0]]
                 /\ pc' = [pc EXCEPT ![p] = "done"]
                 /\ local' = local
            ELSE IF InsufficientCredits(user.credits, local[p].amount)
                   THEN /\ res' = [res EXCEPT ![p] = [status |-> 402,
                                      credits_needed |-> local[p].amount,
                                      credits_available |-> user.credits]]
                        /\ pc' = [pc EXCEPT ![p] = "done"]
                        /\ local' = local
                   ELSE /\ res' = res
                        /\ pc' = [pc EXCEPT ![p] = "spend_update"]
                        /\ local' = [local EXCEPT ![p].credits = user.credits]
    /\ UNCHANGED <<now, users, active_trips, credit_transactions, events, pre, awardLog, nreq, routes, route_traces, reports, client, osrm>>

\* UPDATE users SET credits = credits - $1 WHERE id = $2
SpendCreditsUpdate(p) ==
    /\ pc[p] = "spend_update"
    /\ users' = [users EXCEPT ![local[p].userId].credits = @ - local[p].amount]
    /\ pc' = [pc EXCEPT ![p] = "spend_insert"]
    /\ UNCHANGED <<now, active_trips, credit_transactions, events, local, res, pre, awardLog, nreq, routes, route_traces, reports, client, osrm>>

\* (variant: the amount is recorded without its minus sign)
SpendCreditsInsert_Unsigned(p) ==
    /\ pc[p] = "spend_insert"
    /\ credit_transactions' = Append(credit_transactions,
            [user_id |-> local[p].userId, amount |-> local[p].amount, type |-> "spend",
             description |-> local[p].description, created_at |-> now])
    /\ pc' = [pc EXCEPT ![p] = IF local[p].op = "spend" THEN "spend_respond" ELSE "require_next"]
    /\ UNCHANGED <<now, users, active_trips, events, local, res, pre, awardLog, nreq, routes, route_traces, reports, client, osrm>>

\* INSERT INTO credit_transactions VALUES ($1, -amount, 'spend', description || feature)
SpendCreditsInsert(p) ==
    /\ pc[p] = "spend_insert"
    /\ credit_transactions' = Append(credit_transactions,
            [user_id |-> local[p].userId, amount |-> 0 - local[p].amount, type |-> "spend",
             description |-> local[p].description, created_at |-> now])
    /\ pc' = [pc EXCEPT ![p] = IF local[p].op = "spend" THEN "spend_respond" ELSE "require_next"]
    /\ UNCHANGED <<now, users, active_trips, events, local, res, pre, awardLog, nreq, routes, route_traces, reports, client, osrm>>

\* SELECT credits FROM users WHERE id = $1; res.json({ credits_remaining })
SpendCreditsRespond(p) ==
    /\ pc[p] = "spend_respond"
    /\ res' = [res EXCEPT ![p] = [status |-> 200,
                    credits_remaining |-> users[local[p].userId].credits]]
    /\ pc' = [pc EXCEPT ![p] = "done"]
    /\ UNCHANGED <<now, users, active_trips, credit_transactions, events, local, pre, awardLog, nreq, routes, route_traces, reports, client, osrm>>

(* requireCredits(cost, description): the same check and writes as a middleware; *)
(* its UPDATE and INSERT are the statements of SpendCreditsUpdate/Insert         *)

RequireCreditsBegin(p, u, cost) ==
    /\ pc[p] = "idle"
    /\ u \in DOMAIN users
    /\ nreq < MaxRequests
    /\ nreq' = nreq + 1
    /\ pre' = [pre EXCEPT ![p] = Snapshot]
    /\ local' = [local EXCEPT ![p] = [NoLocal EXCEPT !.op = "require", !.userId = u,
                    !.amount = cost, !.type = "spend", !.description = "feature"]]
    /\ pc' = [pc EXCEPT ![p] = "require_select"]
    /\ UNCHANGED <<now, users, active_trips, credit_transactions, events, res, awardLog, routes, route_traces, reports, client, osrm>>

RequireCreditsSelect(p) ==
    /\ pc[p] = "require_select"
    /\ LET user == users[local[p].userId]
       IN IF PremiumActive(user, now)
            THEN /\ res' = [res EXCEPT ![p] = [status |-> NULL, next |-> TRUE]]
                 /\ pc' = [pc EXCEPT ![p] = "done"]
                 /\ local' = local
            ELSE IF InsufficientCredits(user.credits, local[p].amount)
                   THEN /\ res' = [res EXCEPT ![p] = [status |-> 402,
                                      credits_needed |-> local[p].amount,
                                      credits_available |-> user.credits]]
                        /\ pc' = [pc EXCEPT ![p] = "done"]
                        /\ local' = local
                   ELSE /\ res' = res
                        /\ pc' = [pc EXCEPT ![p] = "spend_update"]
                        /\ local' = [local EXCEPT ![p].credits = user.credits]
    /\ UNCHANGED <<now, users, active_trips, credit_transactions, events, pre, awardLog, nreq, routes, route_traces, reports, client, osrm>>

\* next()
RequireCreditsNext(p) ==
    /\ pc[p] = "require_next"
    /\ res' = [res EXCEPT ![p] = [status |-> NULL, next |-> TRUE]]
    /\ pc' = [pc EXCEPT ![p] = "done"]
    /\ UNCHANGED <<now, users, active_trips, credit_transactions, events, local, pre, awardLog, nreq, routes, route_traces, reports, client, osrm>>

LedgerStep(p) ==
    \/ RegisterInsertUser(p)
    \/ RegisterInsertBonus(p)
    \/ SpendCreditsSelect(p)
    \/ SpendCreditsUpdate(p)
    \/ SpendCreditsInsert(p)
    \/ SpendCreditsRespond(p)
    \/ RequireCreditsSelect(p)
    \/ RequireCreditsNext(p)
    \/ StartTripSelect(p)
    \/ StartTripInsert(p)
    \/ StartTripRespond(p)
    \/ EndTripSelect(p)
    \/ EndTripUpdate(p)
    \/ EndTripRespond(p)
    \/ AwardCreditsUpdate(p)
    \/ AwardCreditsInsert(p)
    \/ Close(p)

\* a request of a rider needs the token that register (or login) returns
Authorized(u) == HasToken(u) /\ nreq < MaxLedgerRequests

LedgerArrive(p) ==
    \/ \E u \in Riders : RegisterBegin(p, u)
    \/ \E u \in Riders, body \in SpendBodies : Authorized(u) /\ SpendCreditsBegin(p, u, body)
    \/ \E u \in Riders, cost \in RequireCosts : Authorized(u) /\ RequireCreditsBegin(p, u, cost)
    \/ \E u \in Riders : Authorized(u) /\ StartTripBegin(p, u, [route_id |-> 1, latitude |-> 1, longitude |-> 1])
    \/ \E u \in Riders : Authorized(u) /\ EndTripBegin(p, u)

\* the ledger under concurrent requests: awards (End), spends and registration interleave
LedgerNext ==
    \/ TrialExpires
    \/ \E u \in Riders, role \in Roles : UpdateUserRole(u, role)
    \/ \E p \in Procs : LedgerArrive(p)
    \/ \E p \in Procs : LedgerStep(p)

LedgerSpec == Init /\ [][LedgerNext]_vars

\* the same requests handled one after another
LedgerSeqNext ==
    \/ TrialExpires
    \/ Quiescent /\ \E u \in Riders, role \in Roles : UpdateUserRole(u, role)
    \/ Quiescent /\ \E p \in Procs : LedgerArrive(p)
    \/ \E p \in Procs : LedgerStep(p)

LedgerSeqSpec == Init /\ [][LedgerSeqNext]_vars

----------------------------------------------------------------------------
(* Vocabulary of the properties *)

HasActiveTrip(trips, u) == \E i \in 1..Len(trips) : trips[i].user_id = u /\ trips[i].is_active
HasEndedTrip(trips, u) == \E i \in 1..Len(trips) : trips[i].user_id = u /\ ~trips[i].is_active

\* the request in slot p has been answered
Answered(p, op) == pc[p] = "done" /\ local[p].op = op
\* ... and it was not rejected for missing coordinates
AnsweredValid(p, op) ==
    Answered(p, op) /\ ~(local[p].op \in {"start", "location"} /\ (local[p].latitude = 0 \/ local[p].longitude = 0))

\* the tables and the broadcast are as they were when the request in slot p arrived
NothingChanged(p) ==
    /\ active_trips = pre[p].active_trips
    /\ users = pre[p].users
    /\ credit_transactions = pre[p].credit_transactions
    /\ events = pre[p].events

\* the times at which location credits were granted for trip t, according to log
LocationCreditTimes(log, t) ==
    {log[i].at : i \in {j \in 1..Len(log) : log[j].tripId = t /\ log[j].amount = 1}}

\* the number of completion bonuses granted for trip t
CompletionBonuses(t) ==
    Cardinality({i \in 1..Len(awardLog) : awardLog[i].tripId = t /\ awardLog[i].amount = 10})

----------------------------------------------------------------------------
(* C1: in every reachable state each rider has at most one trip with       *)
(* is_active = true, also when two Start requests of the rider interleave. *)
C1_AtMostOneActiveTrip ==
    \A u \in Riders :
        Cardinality({i \in 1..Len(active_trips) :
                        active_trips[i].user_id = u /\ active_trips[i].is_active}) <= 1

(* C2: a Start of a rider who has an Active trip is rejected as a conflict *)
(* and changes nothing; a Start of a rider without one creates exactly one *)
(* Active trip at the reported position and publishes exactly one          *)
(* bus:joined event for it.                                                *)
C2_StartConflictOrCreate ==
    \A p \in Procs :
        AnsweredValid(p, "start") =>
            LET u == local[p].userId
                n == Len(pre[p].active_trips)
            IN IF HasActiveTrip(pre[p].active_trips, u)
                 THEN /\ res[p].status = 400
                      /\ res[p].message = "active trip exists"
                      /\ NothingChanged(p)
                 ELSE /\ res[p].status = 201
                      /\ Len(active_trips) = n + 1
                      /\ SubSeq(active_trips, 1, n) = pre[p].active_trips
                      /\ active_trips[n + 1].user_id = u
                      /\ active_trips[n + 1].is_active
                      /\ active_trips[n + 1].current_latitude = local[p].latitude
                      /\ active_trips[n + 1].current_longitude = local[p].longitude
                      /\ res[p].trip = active_trips[n + 1]
                      /\ events = Append(pre[p].events,
                            [name |-> "bus:joined", tripId |-> active_trips[n + 1].id,
                             routeId |-> local[p].route_id,
                             latitude |-> local[p].latitude, longitude |-> local[p].longitude])

C2_Witness ==
    \E p \in Procs :
        /\ AnsweredValid(p, "start")
        /\ HasActiveTrip(pre[p].active_trips, local[p].userId)
        /\ res[p].status = 400

(* C3: with reports handled one after another, a report that arrives less  *)
(* than 60 seconds after the last credited report of the trip is not       *)
(* credited: no transaction is appended, the balance and the trip's earned *)
(* total stay as they were.                                                *)
C3_NoCreditWithinWindow ==
    \A p \in Procs :
        (Answered(p, "location") /\ res[p].status = 200) =>
            LET t == local[p].trip.id
            IN (\E a \in LocationCreditTimes(pre[p].awardLog, t) : now - a < 60) =>
                  /\ res[p].credited = FALSE
                  /\ credit_transactions = pre[p].credit_transactions
                  /\ users = pre[p].users
                  /\ active_trips[t].credits_earned = pre[p].active_trips[t].credits_earned
                  /\ res[p].creditsEarned = pre[p].active_trips[t].credits_earned

C3_Witness ==
    \E p \in Procs :
        /\ Answered(p, "location")
        /\ res[p].status = 200
        /\ \E a \in LocationCreditTimes(pre[p].awardLog, local[p].trip.id) : now - a = 59
        /\ res[p].credited = FALSE

(* C4: with reports handled one after another, a report that is the first  *)
(* of its trip or arrives at least 60 seconds after the previous report    *)
(* grants exactly one credit: one 1-credit 'earn' transaction, balance +1  *)
(* and trip earned total +1.                                               *)
C4_CreditWhenSpaced ==
    \A p \in Procs :
        (Answered(p, "location") /\ res[p].status = 200) =>
            LET t == local[p].trip.id
                u == local[p].userId
                prev == pre[p].active_trips[t].last_location_at
            IN (prev = NULL \/ now - prev >= 60) =>
                  /\ res[p].credited = TRUE
                  /\ credit_transactions = Append(pre[p].credit_transactions,
                        [user_id |-> u, amount |-> 1, type |-> "earn",
                         description |-> "Transmision de ubicacion en bus", created_at |-> now])
                  /\ users[u].credits = pre[p].users[u].credits + 1
                  /\ active_trips[t].credits_earned = pre[p].active_trips[t].credits_earned + 1
                  /\ res[p].creditsEarned = active_trips[t].credits_earned

C4_Witness ==
    \E p \in Procs :
        /\ Answered(p, "location")
        /\ res[p].status = 200
        /\ pre[p].active_trips[local[p].trip.id].last_location_at # NULL
        /\ now - pre[p].active_trips[local[p].trip.id].last_location_at = 60
        /\ res[p].credited = TRUE

(* C5: a report is credited if and only if the trip has no credited report *)
(* yet or at least 60 seconds have passed since its last credited report,  *)
(* whatever uncredited reports came in between (so every second report of  *)
(* a steady 30-second cadence is credited).                                *)
C5_CreditedIffWindowSinceLastCredit ==
    \A p \in Procs :
        (Answered(p, "location") /\ res[p].status = 200) =>
            (res[p].credited <=>
                \A a \in LocationCreditTimes(pre[p].awardLog, local[p].trip.id) : now - a >= 60)

(* C6: under any interleaving of the reports of a trip, two credited       *)
(* reports of the same trip are at least 60 seconds apart.                 *)
C6_OneCreditPerWindow ==
    \A i, j \in 1..Len(awardLog) :
        (i < j /\ awardLog[i].tripId = awardLog[j].tripId
               /\ awardLog[i].amount = 1 /\ awardLog[j].amount = 1)
            => awardLog[j].at - awardLog[i].at >= 60

(* C7: a position report of a rider without an Active trip (never started  *)
(* or already ended) is answered NotFound and changes no table and         *)
(* publishes no event.                                                     *)
C7_ReportWithoutTripNotFound ==
    \A p \in Procs :
        (AnsweredValid(p, "location") /\ ~HasActiveTrip(pre[p].active_trips, local[p].userId)) =>
            /\ res[p].status = 404
            /\ NothingChanged(p)
            /\ awardLog = pre[p].awardLog

C7_Witness ==
    \E p \in Procs :
        /\ AnsweredValid(p, "location")
        /\ ~HasActiveTrip(pre[p].active_trips, local[p].userId)
        /\ HasEndedTrip(pre[p].active_trips, local[p].userId)
        /\ res[p].status = 404

(* C8: a successful End makes the trip inactive with an end timestamp,     *)
(* appends exactly one 10-credit transaction, raises the balance by 10,    *)
(* sets the trip's cumulative credits to the previous value plus 10 and    *)
(* publishes exactly one bus:left event with the trip's id; the returned   *)
(* total is the trip's cumulative credits.                                 *)
C8_EndGrantsBonus ==
    \A p \in Procs :
        (Answered(p, "end") /\ res[p].status = 200) =>
            LET t == res[p].tripId
                u == local[p].userId
            IN /\ pre[p].active_trips[t].is_active
               /\ pre[p].active_trips[t].user_id = u
               /\ ~active_trips[t].is_active
               /\ active_trips[t].ended_at = now
               /\ active_trips[t].credits_earned = pre[p].active_trips[t].credits_earned + 10
               /\ res[p].totalCreditsEarned = active_trips[t].credits_earned
               /\ credit_transactions = Append(pre[p].credit_transactions,
                        [user_id |-> u, amount |-> 10, type |-> "earn",
                         description |-> "Viaje completado", created_at |-> now])
               /\ users[u].credits = pre[p].users[u].credits + 10
               /\ events = Append(pre[p].events,
                        [name |-> "bus:left", tripId |-> t,
                         routeId |-> pre[p].active_trips[t].route_id])
               /\ \A i \in 1..Len(active_trips) : i # t => active_trips[i] = pre[p].active_trips[i]

C8_Witness ==
    \E p \in Procs :
        /\ Answered(p, "end")
        /\ res[p].status = 200
        /\ pre[p].active_trips[res[p].tripId].credits_earned = 1
        /\ res[p].totalCreditsEarned = 11

(* C9: once an End has succeeded the rider has no Active trip, and an End  *)
(* that follows it with no Start in between is answered NotFound and       *)
(* leaves balance, ledger and the ended trip's cumulative credits as they  *)
(* were.                                                                   *)
C9_SecondEndNotFound ==
    \A p \in Procs :
        Answered(p, "end") =>
            /\ res[p].status = 200 => ~HasActiveTrip(active_trips, local[p].userId)
            /\ (~HasActiveTrip(pre[p].active_trips, local[p].userId)
                    /\ HasEndedTrip(pre[p].active_trips, local[p].userId)) =>
                  /\ res[p].status = 404
                  /\ users = pre[p].users
                  /\ credit_transactions = pre[p].credit_transactions
                  /\ active_trips = pre[p].active_trips

C9_Witness ==
    \E p \in Procs :
        /\ Answered(p, "end")
        /\ HasEndedTrip(pre[p].active_trips, local[p].userId)
        /\ ~HasActiveTrip(pre[p].active_trips, local[p].userId)
        /\ res[p].status = 404

(* C10: under any interleaving of End requests the completion bonus is     *)
(* granted at most once per trip, and an ended trip's cumulative credits   *)
(* hold one bonus, not two.                                                *)
C10_BonusAtMostOnce ==
    \A t \in 1..Len(active_trips) : CompletionBonuses(t) <= 1

----------------------------------------------------------------------------
(* Route recommendation engine: recommendRoutes                            *)
(* Coordinates are points of one meridian (longitude 1), latitude counted  *)
(* in steps of one kilometre, so that haversineKm is the difference of the *)
(* latitudes.                                                              *)

AVG_SPEED_KMH == 20
MAX_BOARDING_DIST_KM == 1
\* route.frequency_minutes ?? 15
DEFAULT_FREQUENCY == 15

RouteIds == 1..2
Positions == 1..4

\* haversineKm(lat1, lon1, lat2, lon2), for two points of the same meridian
haversineKm(lat1, lon1, lat2, lon2) ==
    IF lat1 >= lat2 THEN lat1 - lat2 ELSE lat2 - lat1

\* Math.round(n / d) for n >= 0, d > 0: halves are rounded up
MathRound(n, d) == (2 * n + d) \div (2 * d)

MathMax(a, b) == IF a >= b THEN a ELSE b

\* req.body of POST /api/routes/recommend
RecommendBodies ==
    {[originLat |-> o, originLng |-> 1, destLat |-> d, destLng |-> 1] : o \in Positions, d \in Positions}
    \cup {[originLat |-> 1, originLng |-> 1, destLat |-> NULL, destLng |-> 1]}

\* originLat == null || originLng == null || destLat == null || destLng == null
MissingEndpoints(body) ==
    body.originLat = NULL \/ body.originLng = NULL \/ body.destLat = NULL \/ body.destLng = NULL

\* the row of a stop: stops.id is SERIAL, stop_order is the place in the route
StopRow(route_id, k, lat) ==
    [id |-> 10 * route_id + k, latitude |-> lat, longitude |-> 1, stop_order |-> k]

\* a JSONB column: SQL NULL, or an array of points
NullJson == [null |-> TRUE, points |-> <<>>]
Json(points) == [null |-> FALSE, points |-> points]

\* the row of a route with its stops; no geometry has been suggested or accepted
RouteRow(id, active, freq, lats) ==
    [id |-> id, is_active |-> active, frequency_minutes |-> freq,
     stops |-> [k \in 1..Len(lats) |-> StopRow(id, k, lats[k])],
     geometry |-> NullJson, suggested_geometry |-> NullJson, has_suggestion |-> FALSE,
     suggestion_trace_count |-> 0]

\* routesResult.rows: active routes joined with their stops, ORDER BY r.id, s.stop_order
RECURSIVE RoutesResult(_, _)
RoutesResult(rts, id) ==
    IF id \notin DOMAIN rts THEN <<>>
    ELSE (IF rts[id].is_active
            THEN [k \in 1..Len(rts[id].stops) |->
                    [id |-> id, frequency_minutes |-> rts[id].frequency_minutes,
                     stop_id |-> rts[id].stops[k].id,
                     latitude |-> parseFloat(rts[id].stops[k].latitude),
                     longitude |-> parseFloat(rts[id].stops[k].longitude),
                     stop_order |-> rts[id].stops[k].stop_order]]
            ELSE <<>>)
         \o RoutesResult(rts, id + 1)

\* busesResult.rows in the order of the table: active trips that have a position
BusesResult(trips) ==
    LET live == SelectSeq(trips, LAMBDA t : /\ t.is_active
                                            /\ t.current_latitude # NULL
                                            /\ t.current_longitude # NULL)
    IN [k \in 1..Len(live) |->
            [trip_id |-> live[k].id, route_id |-> live[k].route_id,
             latitude |-> parseFloat(live[k].current_latitude),
             longitude |-> parseFloat(live[k].current_longitude)]]

\* the query has no ORDER BY: the rows may come in any order
RowOrders(rows) ==
    {[k \in 1..Len(rows) |-> rows[f[k]]] :
        f \in {g \in [1..Len(rows) -> 1..Len(rows)] :
                 \A i, j \in 1..Len(rows) : i # j => g[i] # g[j]}}

\* routeMap: the rows grouped by route, in the order the routes first appear
RECURSIVE routeMap(_, _)
routeMap(rows, acc) ==
    IF rows = <<>> THEN acc
    ELSE LET row == Head(rows)
             stop == [id |-> row.stop_id, latitude |-> row.latitude,
                      longitude |-> row.longitude, stop_order |-> row.stop_order]
             at == {k \in 1..Len(acc) : acc[k].id = row.id}
         IN IF at = {}
              THEN routeMap(Tail(rows), Append(acc,
                       [id |-> row.id, frequency_minutes |-> row.frequency_minutes,
                        stops |-> <<stop>>]))
              ELSE LET k == CHOOSE x \in at : TRUE
                   IN routeMap(Tail(rows), [acc EXCEPT ![k].stops = Append(@, stop)])

\* let best = ...; for (const x of rest) { if (d(x) < d(best)) best = x }
\* the scan over items[from..], which keeps the earlier item on equal distance
RECURSIVE Nearest(_, _, _, _, _)
Nearest(items, from, best, lat, lng) ==
    IF from > Len(items) THEN best
    ELSE Nearest(items, from + 1,
                 IF haversineKm(lat, lng, items[from].latitude, items[from].longitude)
                      < haversineKm(lat, lng, best.latitude, best.longitude)
                   THEN items[from] ELSE best,
                 lat, lng)

\* (variant: a stop exactly MAX_BOARDING_DIST_KM away is too far)
TooFar_Inclusive(boardingDist) == boardingDist >= MAX_BOARDING_DIST_KM

\* if (boardingDist > MAX_BOARDING_DIST_KM) continue
TooFar(boardingDist) == boardingDist > MAX_BOARDING_DIST_KM

\* (variant: boarding and alighting at the same stop is let through)
WrongDirection_AllowSame(boardingStop, alightingStop) ==
    boardingStop.stop_order > alightingStop.stop_order

\* if (boardingStop.stop_order >= alightingStop.stop_order) continue
WrongDirection(boardingStop, alightingStop) ==
    boardingStop.stop_order >= alightingStop.stop_order

\* activeBusResult = null
NoActiveBus == [tripId |-> NULL, latitude |-> NULL, longitude |-> NULL, minutesAway |-> NULL]

\* the body of the loop over routeMap.values(): no recommendation for the route, or one
RouteRecommendation(route, buses, oLat, oLng, dLat, dLng) ==
    IF Len(route.stops) < 2 THEN <<>>
    ELSE
      LET boardingStop == Nearest(route.stops, 2, route.stops[1], oLat, oLng)
          boardingDist == haversineKm(oLat, oLng, boardingStop.latitude, boardingStop.longitude)
          alightingStop == Nearest(route.stops, 1, route.stops[Len(route.stops)], dLat, dLng)
          alightingDist == haversineKm(dLat, dLng, alightingStop.latitude, alightingStop.longitude)
          routeSegment == SelectSeq(route.stops,
                              LAMBDA st : /\ st.stop_order >= boardingStop.stop_order
                                          /\ st.stop_order <= alightingStop.stop_order)
          activeBuses == SelectSeq(buses, LAMBDA b : b.route_id = route.id)
          closest == Nearest(activeBuses, 2, activeBuses[1],
                             boardingStop.latitude, boardingStop.longitude)
          closestDist == haversineKm(boardingStop.latitude, boardingStop.longitude,
                                     closest.latitude, closest.longitude)
          minutesAway == MathMax(1, MathRound(closestDist * 60, AVG_SPEED_KMH))
          activeBusResult ==
              IF Len(activeBuses) > 0
                THEN [tripId |-> closest.trip_id, latitude |-> closest.latitude,
                      longitude |-> closest.longitude, minutesAway |-> minutesAway]
                ELSE NoActiveBus
          estimatedArrivalMinutes ==
              IF Len(activeBuses) > 0 THEN minutesAway
              ELSE IF route.frequency_minutes = NULL THEN DEFAULT_FREQUENCY
              ELSE route.frequency_minutes
      IN IF TooFar(boardingDist) THEN <<>>
         ELSE IF WrongDirection(boardingStop, alightingStop) THEN <<>>
         ELSE << [route |-> [id |-> route.id, frequency_minutes |-> route.frequency_minutes],
                  boardingStop |-> [id |-> boardingStop.id, latitude |-> boardingStop.latitude,
                                    longitude |-> boardingStop.longitude,
                                    distanceMeters |-> MathRound(boardingDist * 1000, 1)],
                  alightingStop |-> [id |-> alightingStop.id, latitude |-> alightingStop.latitude,
                                     longitude |-> alightingStop.longitude,
                                     distanceMeters |-> MathRound(alightingDist * 1000, 1)],
                  routeSegment |-> [k \in 1..Len(routeSegment) |->
                                      [latitude |-> routeSegment[k].latitude,
                                       longitude |-> routeSegment[k].longitude]],
                  activeBus |-> activeBusResult,
                  hasLiveTracking |-> activeBusResult # NoActiveBus,
                  estimatedArrivalMinutes |-> estimatedArrivalMinutes,
                  recommendation |->
                      IF activeBusResult # NoActiveBus
                        THEN (IF minutesAway <= 2 THEN "arriving" ELSE "on the way")
                        ELSE "frequency"] >>

\* for (const route of routeMap.values()) { ...; recommendations.push(...) }
RECURSIVE PushAll(_, _, _, _)
PushAll(rts, k, buses, body) ==
    IF k > Len(rts) THEN <<>>
    ELSE RouteRecommendation(rts[k], buses, parseFloat(body.originLat), parseFloat(body.originLng),
                             parseFloat(body.destLat), parseFloat(body.destLng))
         \o PushAll(rts, k + 1, buses, body)

\* recommendations.sort((a, b) => a.estimatedArrivalMinutes - b.estimatedArrivalMinutes):
\* Array.prototype.sort is stable, an entry goes behind the entries that are not later than it
RECURSIVE SortByEta(_, _)
SortByEta(recs, sorted) ==
    IF recs = <<>> THEN sorted
    ELSE LET x == Head(recs)
             n == Cardinality({i \in 1..Len(sorted) :
                      sorted[i].estimatedArrivalMinutes <= x.estimatedArrivalMinutes})
         IN SortByEta(Tail(recs),
                      SubSeq(sorted, 1, n) \o <<x>> \o SubSeq(sorted, n + 1, Len(sorted)))

\* (variant: the list is returned in the order of the loop)
Recommendations_Unsorted(rows, buses, body) ==
    PushAll(routeMap(rows, <<>>), 1, buses, body)

\* res.json({ recommendations })
Recommendations(rows, buses, body) ==
    SortByEta(PushAll(routeMap(rows, <<>>), 1, buses, body), <<>>)

RecommendBegin(p, body) ==
    /\ pc[p] = "idle"
    /\ local' = [local EXCEPT ![p] =
                    [op |-> "recommend", body |-> body, rows |-> <<>>] @@ NoLocal]
    /\ IF MissingEndpoints(body)
         THEN /\ res' = [res EXCEPT ![p] = [status |-> 400, message |-> "coordinates required"]]
              /\ pc' = [pc EXCEPT ![p] = "done"]
         ELSE /\ res' = res
              /\ pc' = [pc EXCEPT ![p] = "recommend_routes"]
    /\ UNCHANGED <<now, users, active_trips, credit_transactions, events, pre, awardLog, nreq, routes, route_traces, reports, client, osrm>>

\* const routesResult = await pool.query(...)
RecommendQueryRoutes(p) ==
    /\ pc[p] = "recommend_routes"
    /\ local' = [local EXCEPT ![p].rows = RoutesResult(routes, 1)]
    /\ pc' = [pc EXCEPT ![p] = "recommend_buses"]
    /\ UNCHANGED <<now, users, active_trips, credit_transactions, events, res, pre, awardLog, nreq, routes, route_traces, reports, client, osrm>>

\* const busesResult = await pool.query(...), the loop, the sort and the response
RecommendQueryBuses(p) ==
    /\ pc[p] = "recommend_buses"
    /\ \E buses \in RowOrders(BusesResult(active_trips)) :
          res' = [res EXCEPT ![p] =
                    [status |-> 200,
                     recommendations |-> Recommendations(local[p].rows, buses, local[p].body)]]
    /\ pc' = [pc EXCEPT ![p] = "done"]
    /\ UNCHANGED <<now, users, active_trips, credit_transactions, events, local, pre, awardLog, nreq, routes, route_traces, reports, client, osrm>>

RecStep(p) ==
    \/ RecommendQueryRoutes(p)
    \/ RecommendQueryBuses(p)
    \/ Close(p)

\* the route data the queries are run on: route 1 is any route of at most MaxStops
\* stops at different places, route 2 has a stop at every place, south to north
RouteHeaders ==
    {[is_active |-> FALSE, frequency_minutes |-> 10],
     [is_active |-> TRUE, frequency_minutes |-> NULL],
     [is_active |-> TRUE, frequency_minutes |-> 10]}

StopLists ==
    UNION {{lats \in [1..n -> Positions] : \A i, j \in 1..n : i # j => lats[i] # lats[j]} :
              n \in 0..MaxStops}

RouteTables ==
    {[id \in RouteIds |->
         IF id = 1 THEN RouteRow(1, h1.is_active, h1.frequency_minutes, lats)
         ELSE RouteRow(id, h2.is_active, h2.frequency_minutes, [k \in Positions |-> k])] :
       h1 \in RouteHeaders, h2 \in RouteHeaders, lats \in StopLists}

\* the trips under way: at most two, each on one of the routes, at the south end or 2 km north
BusSpots ==
    {[route_id |-> r, latitude |-> lat, is_active |-> TRUE] : r \in RouteIds, lat \in {1, 3}}
    \cup {[route_id |-> 1, latitude |-> 1, is_active |-> FALSE]}

BusTables ==
    UNION {{[k \in 1..n |->
                [NewTrip(k, k, spots[k].route_id, spots[k].latitude, 1, 0)
                    EXCEPT !.is_active = spots[k].is_active]] :
              spots \in [1..n -> BusSpots]} : n \in 0..2}

RecInit ==
    /\ now = 0
    /\ users = [u \in 1..2 |-> NewUser(0)]
    /\ active_trips \in BusTables
    /\ credit_transactions = <<>>
    /\ events = <<>>
    /\ pc = [p \in Procs |-> "idle"]
    /\ local = [p \in Procs |-> NoLocal]
    /\ res = [p \in Procs |-> NoRes]
    /\ pre = [p \in Procs |-> NoPre]
    /\ awardLog = <<>>
    /\ nreq = 0
    /\ routes \in RouteTables
    /\ route_traces = <<>>
    /\ reports = <<>>
    /\ client = NoClient
    /\ osrm = NoOsrm

\* recommendation requests, one at a time, over fixed route and trip data
RecNext ==
    \/ Quiescent /\ \E p \in Procs, body \in RecommendBodies : RecommendBegin(p, body)
    \/ \E p \in Procs : RecStep(p)

RecSpec == RecInit /\ [][RecNext]_vars

----------------------------------------------------------------------------
(* Geometry consensus engine: saveTrace, processPendingTraces,             *)
(* calculateSuggestedGeometry, applySuggestion, discardSuggestion          *)
(* A coordinate is a whole number of 0.00001 degrees, so that toFixed(4)   *)
(* rounds it to a multiple of ten; a centroid is a fraction <<n, d>>.      *)

\* points.length < 10
MIN_TRACE_POINTS == 10
\* result.rows.length < 5, pendingCount >= 5
MIN_PENDING_TRACES == 5

\* x.toFixed(4), for x >= 0: the key of the cell, halves rounded up
toFixed4(x) == (x + 5) \div 10

RECURSIVE GCD(_, _)
GCD(a, b) == IF b = 0 THEN a ELSE GCD(b, a % b)

\* (variant: the sum is not divided by the count)
Divide_SumOnly(sum, count) == <<sum, 1>>

\* sum / count as a fraction in lowest terms (count > 0, sum >= 0)
Divide(sum, count) ==
    LET g == GCD(sum, count) IN <<sum \div g, count \div g>>

\* the points a rider's phone has collected: standing at a stop (one cell, two
\* different readings), a ride through ten cells, and a ride cut short after 9 samples
StandingPoints == [k \in 1..10 |-> [lat |-> IF k % 2 = 1 THEN 0 ELSE 4, lng |-> 0]]
RidePoints == [k \in 1..10 |-> [lat |-> 10 * k, lng |-> 0]]
ShortPoints == [k \in 1..9 |-> [lat |-> 10 * k, lng |-> 0]]

\* req.body of POST /api/traces; route 9 does not exist
SaveTraceBodies ==
    {[route_id |-> r, points |-> pts] :
        r \in {1, 9}, pts \in {StandingPoints, RidePoints, ShortPoints}}

\* (req as any).userRole
UserRoles == {"admin", "user"}

\* a row of route_traces as INSERTed: status DEFAULT 'pending'
NewTrace(id, route_id, u, points) ==
    [id |-> id, route_id |-> route_id, user_id |-> u, points |-> points,
     point_count |-> Len(points), status |-> "pending"]

\* SELECT ... FROM route_traces WHERE route_id = $1 AND status = 'pending'
PendingTraces(traces, route_id) ==
    SelectSeq(traces, LAMBDA t : t.route_id = route_id /\ t.status = "pending")

\* result.rows.flatMap(row => row.points)
RECURSIVE flatMap(_)
flatMap(rows) ==
    IF rows = <<>> THEN <<>> ELSE Head(rows).points \o flatMap(Tail(rows))

\* `${point.lat.toFixed(4)},${point.lng.toFixed(4)}`
Key(point) == <<toFixed4(point.lat), toFixed4(point.lng)>>

RECURSIVE SumOver(_, _, _)
SumOver(points, key, field) ==
    IF points = <<>> THEN 0
    ELSE (IF Key(Head(points)) = key THEN Head(points)[field] ELSE 0)
         + SumOver(Tail(points), key, field)

\* groups: for every key the sums, the count and the index of its first point
Groups(allPoints) ==
    {[sumLat |-> SumOver(allPoints, key, "lat"),
      sumLng |-> SumOver(allPoints, key, "lng"),
      count |-> Cardinality({i \in 1..Len(allPoints) : Key(allPoints[i]) = key}),
      firstIndex |-> CHOOSE i \in 1..Len(allPoints) :
                        /\ Key(allPoints[i]) = key
                        /\ \A j \in 1..(i - 1) : Key(allPoints[j]) # key] :
        key \in {Key(allPoints[i]) : i \in 1..Len(allPoints)}}

\* Array.from(groups.values()).sort((a, b) => a.firstIndex - b.firstIndex)
RECURSIVE SortByFirstIndex(_)
SortByFirstIndex(groups) ==
    IF groups = {} THEN <<>>
    ELSE LET g == CHOOSE g \in groups : \A h \in groups : g.firstIndex <= h.firstIndex
         IN <<g>> \o SortByFirstIndex(groups \ {g})

\* (variant: one pending trace is enough)
TooFewTraces_One(n) == n < 1

\* if (result.rows.length < 5) return null
TooFewTraces(n) == n < MIN_PENDING_TRACES

\* calculateSuggestedGeometry from the rows read: null with fewer than 5 rows,
\* else the centroids [sumLat / count, sumLng / count] in order of first appearance
calculateSuggestedGeometry(rows) ==
    IF TooFewTraces(Len(rows)) THEN NullJson
    ELSE LET sorted == SortByFirstIndex(Groups(flatMap(rows)))
         IN Json([k \in 1..Len(sorted) |->
                    <<Divide(sorted[k].sumLat, sorted[k].count),
                      Divide(sorted[k].sumLng, sorted[k].count)>>])

(* saveTrace *)

SaveTraceBegin(p, u, body) ==
    /\ pc[p] = "idle"
    /\ u \in DOMAIN users
    /\ nreq < MaxTraceRequests
    /\ nreq' = nreq + 1
    /\ local' = [local EXCEPT ![p] =
                    [op |-> "saveTrace", userId |-> u, route_id |-> body.route_id,
                     points |-> body.points, traceId |-> NULL, read |-> {},
                     geometry |-> NullJson] @@ NoLocal]
    /\ IF Len(body.points) < MIN_TRACE_POINTS
         THEN /\ res' = [res EXCEPT ![p] = [status |-> 400, message |-> "Not enough GPS points"]]
              /\ pc' = [pc EXCEPT ![p] = "done"]
         ELSE /\ res' = res
              /\ pc' = [pc EXCEPT ![p] = "trace_route"]
    /\ UNCHANGED <<now, users, active_trips, credit_transactions, events, pre, awardLog, routes, route_traces, reports, client, osrm>>

\* SELECT id FROM routes WHERE id = $1
SaveTraceRouteCheck(p) ==
    /\ pc[p] = "trace_route"
    /\ IF local[p].route_id \notin DOMAIN routes
         THEN /\ res' = [res EXCEPT ![p] = [status |-> 404, message |-> "Route not found"]]
              /\ pc' = [pc EXCEPT ![p] = "done"]
         ELSE /\ res' = res
              /\ pc' = [pc EXCEPT ![p] = "trace_insert"]
    /\ UNCHANGED <<now, users, active_trips, credit_transactions, events, local, pre, awardLog, nreq, routes, route_traces, reports, client, osrm>>

\* INSERT INTO route_traces (...) RETURNING id
SaveTraceInsert(p) ==
    /\ pc[p] = "trace_insert"
    /\ LET row == NewTrace(Len(route_traces) + 1, local[p].route_id, local[p].userId,
                           local[p].points)
       IN /\ route_traces' = Append(route_traces, row)
          /\ local' = [local EXCEPT ![p].traceId = row.id]
    /\ pc' = [pc EXCEPT ![p] = "trace_count"]
    /\ UNCHANGED <<now, users, active_trips, credit_transactions, events, res, pre, awardLog, nreq, routes, reports, client, osrm>>

\* SELECT COUNT(*) ... status = 'pending'; processPendingTraces is started and not
\* awaited when the count is at least 5; res.status(201)
SaveTraceCount(p) ==
    /\ pc[p] = "trace_count"
    /\ res' = [res EXCEPT ![p] = [status |-> 201, traceId |-> local[p].traceId]]
    /\ pc' = [pc EXCEPT ![p] =
                IF Len(PendingTraces(route_traces, local[p].route_id)) >= MIN_PENDING_TRACES
                  THEN "process_select" ELSE "done"]
    /\ UNCHANGED <<now, users, active_trips, credit_transactions, events, local, pre, awardLog, nreq, routes, route_traces, reports, client, osrm>>

(* processPendingTraces, running after the response of the saveTrace that started it *)

\* const geometry = await calculateSuggestedGeometry(routeId); if (geometry === null) return
ProcessSelect(p) ==
    /\ pc[p] = "process_select"
    /\ LET rows == PendingTraces(route_traces, local[p].route_id)
           geometry == calculateSuggestedGeometry(rows)
       IN /\ local' = [local EXCEPT ![p].read = {rows[k].id : k \in 1..Len(rows)},
                                    ![p].geometry = geometry]
          /\ pc' = [pc EXCEPT ![p] = IF geometry = NullJson THEN "done"
                                     ELSE "process_update_route"]
    /\ UNCHANGED <<now, users, active_trips, credit_transactions, events, res, pre, awardLog, nreq, routes, route_traces, reports, client, osrm>>

\* (variant: the run also writes the accepted geometry)
ProcessUpdateRoute_AutoApply(p) ==
    /\ pc[p] = "process_update_route"
    /\ LET r == local[p].route_id
       IN routes' = [routes EXCEPT
                        ![r].geometry = local[p].geometry,
                        ![r].suggested_geometry = local[p].geometry,
                        ![r].has_suggestion = TRUE,
                        ![r].suggestion_trace_count = Len(PendingTraces(route_traces, r))]
    /\ pc' = [pc EXCEPT ![p] = "process_update_traces"]
    /\ UNCHANGED <<now, users, active_trips, credit_transactions, events, local, res, pre, awardLog, nreq, route_traces, reports, client, osrm>>

\* UPDATE routes SET suggested_geometry = $1, has_suggestion = true,
\*   suggestion_trace_count = (SELECT COUNT(*) ... 'pending') WHERE id = $2
ProcessUpdateRoute(p) ==
    /\ pc[p] = "process_update_route"
    /\ LET r == local[p].route_id
       IN routes' = [routes EXCEPT
                        ![r].suggested_geometry = local[p].geometry,
                        ![r].has_suggestion = TRUE,
                        ![r].suggestion_trace_count = Len(PendingTraces(route_traces, r))]
    /\ pc' = [pc EXCEPT ![p] = "process_update_traces"]
    /\ UNCHANGED <<now, users, active_trips, credit_transactions, events, local, res, pre, awardLog, nreq, route_traces, reports, client, osrm>>

\* UPDATE route_traces SET status = 'processed' WHERE route_id = $1 AND status = 'pending'
ProcessUpdateTraces(p) ==
    /\ pc[p] = "process_update_traces"
    /\ route_traces' = [k \in 1..Len(route_traces) |->
                          IF /\ route_traces[k].route_id = local[p].route_id
                             /\ route_traces[k].status = "pending"
                            THEN [route_traces[k] EXCEPT !.status = "processed"]
                            ELSE route_traces[k]]
    /\ pc' = [pc EXCEPT ![p] = "done"]
    /\ UNCHANGED <<now, users, active_trips, credit_transactions, events, local, res, pre, awardLog, nreq, routes, reports, client, osrm>>

(* applySuggestion, discardSuggestion *)

ApplySuggestionBegin(p, role, id) ==
    /\ pc[p] = "idle"
    /\ nreq < MaxTraceRequests
    /\ nreq' = nreq + 1
    /\ local' = [local EXCEPT ![p] =
                    [op |-> "applySuggestion", route_id |-> id, userRole |-> role] @@ NoLocal]
    /\ IF role # "admin"
         THEN /\ res' = [res EXCEPT ![p] = [status |-> 403, message |-> "Forbidden"]]
              /\ pc' = [pc EXCEPT ![p] = "done"]
         ELSE /\ res' = res
              /\ pc' = [pc EXCEPT ![p] = "apply_update"]
    /\ UNCHANGED <<now, users, active_trips, credit_transactions, events, pre, awardLog, routes, route_traces, reports, client, osrm>>

\* UPDATE routes SET geometry = suggested_geometry, has_suggestion = false,
\*   suggested_geometry = null, suggestion_trace_count = 0 WHERE id = $1
ApplySuggestionUpdate(p) ==
    /\ pc[p] = "apply_update"
    /\ LET r == local[p].route_id
       IN routes' = IF r \in DOMAIN routes
                      THEN [routes EXCEPT ![r].geometry = routes[r].suggested_geometry,
                                          ![r].has_suggestion = FALSE,
                                          ![r].suggested_geometry = NullJson,
                                          ![r].suggestion_trace_count = 0]
                      ELSE routes
    /\ res' = [res EXCEPT ![p] = [status |-> 200, success |-> TRUE]]
    /\ pc' = [pc EXCEPT ![p] = "done"]
    /\ UNCHANGED <<now, users, active_trips, credit_transactions, events, local, pre, awardLog, nreq, route_traces, reports, client, osrm>>

DiscardSuggestionBegin(p, role, id) ==
    /\ pc[p] = "idle"
    /\ nreq < MaxTraceRequests
    /\ nreq' = nreq + 1
    /\ local' = [local EXCEPT ![p] =
                    [op |-> "discardSuggestion", route_id |-> id, userRole |-> role] @@ NoLocal]
    /\ IF role # "admin"
         THEN /\ res' = [res EXCEPT ![p] = [status |-> 403, message |-> "Forbidden"]]
              /\ pc' = [pc EXCEPT ![p] = "done"]
         ELSE /\ res' = res
              /\ pc' = [pc EXCEPT ![p] = "discard_route"]
    /\ UNCHANGED <<now, users, active_trips, credit_transactions, events, pre, awardLog, routes, route_traces, reports, client, osrm>>

\* UPDATE routes SET has_suggestion = false, suggested_geometry = null,
\*   suggestion_trace_count = 0 WHERE id = $1
DiscardSuggestionUpdateRoute(p) ==
    /\ pc[p] = "discard_route"
    /\ LET r == local[p].route_id
       IN routes' = IF r \in DOMAIN routes
                      THEN [routes EXCEPT ![r].has_suggestion = FALSE,
                                          ![r].suggested_geometry = NullJson,
                                          ![r].suggestion_trace_count = 0]
                      ELSE routes
    /\ pc' = [pc EXCEPT ![p] = "discard_traces"]
    /\ UNCHANGED <<now, users, active_trips, credit_transactions, events, local, res, pre, awardLog, nreq, route_traces, reports, client, osrm>>

\* UPDATE route_traces SET status = 'discarded' WHERE route_id = $1 AND status = 'processed'
DiscardSuggestionUpdateTraces(p) ==
    /\ pc[p] = "discard_traces"
    /\ route_traces' = [k \in 1..Len(route_traces) |->
                          IF /\ route_traces[k].route_id = local[p].route_id
                             /\ route_traces[k].status = "processed"
                            THEN [route_traces[k] EXCEPT !.status = "discarded"]
                            ELSE route_traces[k]]
    /\ res' = [res EXCEPT ![p] = [status |-> 200, success |-> TRUE]]
    /\ pc' = [pc EXCEPT ![p] = "done"]
    /\ UNCHANGED <<now, users, active_trips, credit_transactions, events, local, pre, awardLog, nreq, routes, reports, client, osrm>>

ConsensusStep(p) ==
    \/ SaveTraceRouteCheck(p)
    \/ SaveTraceInsert(p)
    \/ SaveTraceCount(p)
    \/ ProcessSelect(p)
    \/ ProcessUpdateRoute(p)
    \/ ProcessUpdateTraces(p)
    \/ ApplySuggestionUpdate(p)
    \/ DiscardSuggestionUpdateRoute(p)
    \/ DiscardSuggestionUpdateTraces(p)
    \/ Close(p)

ConsensusArrive(p) ==
    \/ \E u \in DOMAIN users, body \in SaveTraceBodies : SaveTraceBegin(p, u, body)
    \/ \E role \in UserRoles : ApplySuggestionBegin(p, role, 1)
    \/ \E role \in UserRoles : DiscardSuggestionBegin(p, role, 1)

\* a geometry the operator has drawn
OperatorGeometry == Json(<< <<<<0, 1>>, <<0, 1>>>>, <<<<100, 1>>, <<0, 1>>>> >>)

\* traces already collected: 3 or 4 pending ones of route 1, all of riders standing
\* or all of rides, and one pending trace of route 2
TraceTables ==
    {[k \in 1..(n + 1) |->
         IF k <= n THEN NewTrace(k, 1, 1, pts) ELSE NewTrace(k, 2, 1, RidePoints)] :
       n \in {3, 4}, pts \in {StandingPoints, RidePoints}}

ConsensusInit ==
    /\ now = 0
    /\ users = [u \in {1} |-> NewUser(0)]
    /\ active_trips = <<>>
    /\ credit_transactions = <<>>
    /\ events = <<>>
    /\ pc = [p \in Procs |-> "idle"]
    /\ local = [p \in Procs |-> NoLocal]
    /\ res = [p \in Procs |-> NoRes]
    /\ pre = [p \in Procs |-> NoPre]
    /\ awardLog = <<>>
    /\ nreq = 0
    /\ routes \in {[id \in RouteIds |->
                      [RouteRow(id, TRUE, 10, <<1, 2>>) EXCEPT !.geometry = g]] :
                    g \in {NullJson, OperatorGeometry}}
    /\ route_traces \in TraceTables
    /\ reports = <<>>
    /\ client = NoClient
    /\ osrm = NoOsrm

\* trace submissions, the runs they start and the operator's decisions, interleaved
ConsensusNext ==
    \/ \E p \in Procs : ConsensusArrive(p)
    \/ \E p \in Procs : ConsensusStep(p)

ConsensusSpec == ConsensusInit /\ [][ConsensusNext]_vars

\* the same, one request (with the run it starts) at a time
ConsensusSeqNext ==
    \/ Quiescent /\ \E p \in Procs : ConsensusArrive(p)
    \/ \E p \in Procs : ConsensusStep(p)

ConsensusSeqSpec == ConsensusInit /\ [][ConsensusSeqNext]_vars

\* the tables after five traces of route 1 were consumed by a run whose suggestion
\* the operator applied (applySuggestion leaves them 'processed'), and four further
\* traces of route 1 have been collected since
AppliedTraces == [k \in 1..5 |-> [NewTrace(k, 1, 1, RidePoints) EXCEPT !.status = "processed"]]

DiscardInit ==
    /\ now = 0
    /\ users = [u \in {1} |-> NewUser(0)]
    /\ active_trips = <<>>
    /\ credit_transactions = <<>>
    /\ events = <<>>
    /\ pc = [p \in Procs |-> "idle"]
    /\ local = [p \in Procs |-> NoLocal]
    /\ res = [p \in Procs |-> NoRes]
    /\ pre = [p \in Procs |-> NoPre]
    /\ awardLog = <<>>
    /\ nreq = 0
    /\ routes = [id \in RouteIds |->
                   [RouteRow(id, TRUE, 10, <<1, 2>>) EXCEPT
                       !.geometry = IF id = 1 THEN calculateSuggestedGeometry(AppliedTraces)
                                              ELSE NullJson]]
    /\ route_traces \in {AppliedTraces \o [k \in 1..4 |-> NewTrace(5 + k, 1, 1, pts)] :
                           pts \in {StandingPoints, RidePoints}}
    /\ reports = <<>>
    /\ client = NoClient
    /\ osrm = NoOsrm

DiscardSpec == DiscardInit /\ [][ConsensusSeqNext]_vars

----------------------------------------------------------------------------
(* Vocabulary of the ledger properties *)

\* the rider pays for features at time t: no premium flag, or trial and plan both run out
NonPremium(user, t) ==
    \/ ~user.is_premium
    \/ /\ (user.premium_expires_at = NULL \/ user.premium_expires_at <= t)
       /\ (user.trial_expires_at = NULL \/ user.trial_expires_at <= t)

RECURSIVE SumOfAmounts(_, _)
SumOfAmounts(txs, u) ==
    IF txs = <<>> THEN 0
    ELSE (IF Head(txs).user_id = u THEN Head(txs).amount ELSE 0) + SumOfAmounts(Tail(txs), u)

\* an award, a spend or the welcome award of rider u has made its first write only
MidWay(u) ==
    \E p \in Procs :
        /\ local[p].userId = u
        /\ pc[p] \in {"award_insert", "spend_insert", "register_bonus"}

(* C11: a spend (POST /credits/spend or the requireCredits middleware) of  *)
(* a non-premium rider for more credits than the balance is answered 402   *)
(* (InsufficientBalance), the balance is unchanged and no transaction is   *)
(* appended.                                                               *)
C11_SpendOverBalanceRejected ==
    \A p \in Procs :
        (pc[p] = "done" /\ local[p].op \in {"spend", "require"}) =>
            LET u == local[p].userId
            IN (/\ NonPremium(pre[p].users[u], now)
                /\ local[p].amount > 0
                /\ local[p].amount > pre[p].users[u].credits) =>
                   /\ res[p].status = 402
                   /\ users = pre[p].users
                   /\ credit_transactions = pre[p].credit_transactions

C11_Witness ==
    \E p \in Procs :
        /\ pc[p] = "done"
        /\ local[p].op = "spend"
        /\ NonPremium(pre[p].users[local[p].userId], now)
        /\ local[p].amount = 60
        /\ pre[p].users[local[p].userId].credits = 50
        /\ res[p].status = 402

(* C12: the balance of a non-premium rider is never negative, whatever the *)
(* interleaving of the rider's spend requests.                             *)
C12_BalanceNeverNegative ==
    \A u \in DOMAIN users : NonPremium(users[u], now) => users[u].credits >= 0

----------------------------------------------------------------------------
(* Vocabulary of the recommendation properties *)

\* the request in slot p has been answered with a list of recommendations
Recommended(p) == pc[p] = "done" /\ local[p].op = "recommend" /\ res[p].status = 200

KmApart(a, b) == IF a >= b THEN a - b ELSE b - a

\* the order index of the stop of route r that has the given id
StopOrderOf(r, stopId) ==
    LET k == CHOOSE k \in DOMAIN routes[r].stops : routes[r].stops[k].id = stopId
    IN routes[r].stops[k].stop_order

\* the stops of route r that no other stop of the route is nearer to the latitude than
NearestStops(r, lat) ==
    {k \in DOMAIN routes[r].stops :
        \A j \in DOMAIN routes[r].stops :
            KmApart(routes[r].stops[k].latitude, lat) <= KmApart(routes[r].stops[j].latitude, lat)}

\* boarding at stop b of route r and alighting at stop a passes both checks
PassesChecks(r, b, a, lat) ==
    /\ KmApart(routes[r].stops[b].latitude, lat) <= 1
    /\ routes[r].stops[b].stop_order < routes[r].stops[a].stop_order

\* route r qualifies whichever of its nearest stops are taken / whichever are taken, it does not
Qualifies(r, body) ==
    /\ routes[r].is_active
    /\ Len(routes[r].stops) >= 2
    /\ \A b \in NearestStops(r, body.originLat), a \in NearestStops(r, body.destLat) :
          PassesChecks(r, b, a, body.originLat)

Disqualified(r, body) ==
    \/ ~routes[r].is_active
    \/ Len(routes[r].stops) < 2
    \/ \A b \in NearestStops(r, body.originLat), a \in NearestStops(r, body.destLat) :
          ~PassesChecks(r, b, a, body.originLat)

\* a trip under way on route r that has reported a position
LiveVehicleOn(r) ==
    \E i \in 1..Len(active_trips) :
        /\ active_trips[i].is_active
        /\ active_trips[i].route_id = r
        /\ active_trips[i].current_latitude # NULL

EntriesOf(recs, r) == {i \in 1..Len(recs) : recs[i].route.id = r}

(* C14: no recommendation is emitted whose boarding stop has an order     *)
(* index greater than or equal to that of its alighting stop.              *)
C14_BoardingBeforeAlighting ==
    \A p \in Procs :
        Recommended(p) =>
            \A i \in 1..Len(res[p].recommendations) :
                LET rec == res[p].recommendations[i]
                IN StopOrderOf(rec.route.id, rec.boardingStop.id)
                       < StopOrderOf(rec.route.id, rec.alightingStop.id)

\* route 1 is near the origin but runs the wrong way (or boards and alights at one stop),
\* and is left out while route 2 is recommended
C14_Witness ==
    \E p \in Procs :
        /\ Recommended(p)
        /\ routes[1].is_active
        /\ Len(routes[1].stops) >= 2
        /\ \A b \in NearestStops(1, local[p].body.originLat),
              a \in NearestStops(1, local[p].body.destLat) :
                /\ KmApart(routes[1].stops[b].latitude, local[p].body.originLat) <= 1
                /\ routes[1].stops[b].stop_order >= routes[1].stops[a].stop_order
        /\ EntriesOf(res[p].recommendations, 1) = {}
        /\ EntriesOf(res[p].recommendations, 2) # {}

(* C15: the recommendation list is sorted by non-decreasing estimated      *)
(* arrival minutes: of two adjacent recommendations the earlier one's ETA  *)
(* is less than or equal to the later one's.                               *)
C15_SortedByEta ==
    \A p \in Procs :
        Recommended(p) =>
            \A i \in 1..(Len(res[p].recommendations) - 1) :
                res[p].recommendations[i].estimatedArrivalMinutes
                    <= res[p].recommendations[i + 1].estimatedArrivalMinutes

\* route 2 comes before route 1 because its vehicle is nearer in time
C15_Witness ==
    \E p \in Procs :
        /\ Recommended(p)
        /\ Len(res[p].recommendations) = 2
        /\ res[p].recommendations[1].route.id = 2
        /\ res[p].recommendations[2].route.id = 1
        /\ res[p].recommendations[1].estimatedArrivalMinutes
              < res[p].recommendations[2].estimatedArrivalMinutes

(* C16: every active route with at least 2 stops whose stop nearest the    *)
(* origin is within 1 km of it and precedes its stop nearest the           *)
(* destination yields exactly one recommendation, with or without a trip   *)
(* under way on it; without one the ETA is the route's scheduled headway   *)
(* and there is no live-vehicle entry. Routes that are inactive, have      *)
(* fewer than 2 stops or fail either check yield none.                     *)
C16_OnePerQualifyingRoute ==
    \A p \in Procs :
        Recommended(p) =>
            \A r \in DOMAIN routes :
                LET mine == EntriesOf(res[p].recommendations, r)
                IN /\ Qualifies(r, local[p].body) =>
                        /\ Cardinality(mine) = 1
                        /\ ~LiveVehicleOn(r) =>
                              \A i \in mine :
                                 /\ ~res[p].recommendations[i].hasLiveTracking
                                 /\ res[p].recommendations[i].activeBus.tripId = NULL
                                 /\ routes[r].frequency_minutes # NULL =>
                                       res[p].recommendations[i].estimatedArrivalMinutes
                                           = routes[r].frequency_minutes
                   /\ Disqualified(r, local[p].body) => mine = {}

\* route 1 qualifies with its boarding stop exactly 1 km from the origin and has no
\* vehicle, route 2 has one; both are recommended
C16_Witness ==
    \E p \in Procs :
        /\ Recommended(p)
        /\ Qualifies(1, local[p].body)
        /\ \A b \in NearestStops(1, local[p].body.originLat) :
              KmApart(routes[1].stops[b].latitude, local[p].body.originLat) = 1
        /\ ~LiveVehicleOn(1)
        /\ LiveVehicleOn(2)
        /\ \E i \in EntriesOf(res[p].recommendations, 1) :
              res[p].recommendations[i].estimatedArrivalMinutes = 10
        /\ \E i \in EntriesOf(res[p].recommendations, 2) :
              res[p].recommendations[i].hasLiveTracking

(* C17: the output is a function of the origin, the destination and the    *)
(* route and trip data only: whatever the order in which the rows of the   *)
(* trips (and routes) are supplied, the list of recommendations is the     *)
(* same, the relative order of entries with equal ETA included.            *)
C17_SameListForAnyRowOrder ==
    \A p \in Procs :
        Recommended(p) =>
            \A buses \in RowOrders(BusesResult(active_trips)) :
                Recommendations(local[p].rows, buses, local[p].body) = res[p].recommendations

----------------------------------------------------------------------------
(* Vocabulary of the consensus properties *)

PendingOf(traces, r) ==
    {k \in 1..Len(traces) : traces[k].route_id = r /\ traces[k].status = "pending"}

SuggestionFields(row) ==
    <<row.suggested_geometry, row.has_suggestion, row.suggestion_trace_count>>

\* the step publishes a suggestion for route r / marks a pending trace of r processed
Publishes(r) ==
    /\ routes'[r].has_suggestion
    /\ SuggestionFields(routes'[r]) # SuggestionFields(routes[r])

MarksProcessed(r) ==
    \E k \in 1..Len(route_traces) :
        /\ route_traces[k].route_id = r
        /\ route_traces[k].status = "pending"
        /\ route_traces'[k].status = "processed"

(* C18: a consensus run publishes a suggested geometry and marks traces    *)
(* processed only if at least 5 traces of its route were pending when it   *)
(* read them; a run that reads fewer than 5 ends there and changes no      *)
(* suggestion field and no trace status.                                   *)
C18_RunNeedsFivePending ==
    [][/\ \A r \in DOMAIN routes :
            (Publishes(r) \/ MarksProcessed(r)) =>
                \E p \in Procs :
                    /\ local[p].op = "saveTrace"
                    /\ local[p].route_id = r
                    /\ pc'[p] # pc[p]
                    /\ Cardinality(local[p].read) >= 5
       /\ \A p \in Procs :
            (/\ pc[p] = "process_select"
             /\ pc'[p] # pc[p]
             /\ Cardinality(PendingOf(route_traces, local[p].route_id)) < 5) =>
                /\ pc'[p] = "done"
                /\ routes' = routes
                /\ route_traces' = route_traces]_vars

\* a run that found fewer than 5 pending traces (another run had taken them) has
\* ended, and the route has the suggestion of the other run
C18_Witness ==
    \E p \in Procs :
        /\ pc[p] = "done"
        /\ local[p].op = "saveTrace"
        /\ res[p].status = 201
        /\ Cardinality(local[p].read) \in 1..4
        /\ routes[1].has_suggestion
        /\ \E k \in 1..Len(route_traces) : route_traces[k].status = "processed"

(* C19: every suggested geometry that a consensus run publishes has at     *)
(* least 5 points.                                                         *)
C19_SuggestionHasFivePoints ==
    \A r \in DOMAIN routes :
        routes[r].has_suggestion => Len(routes[r].suggested_geometry.points) >= 5

(* C20: saveTrace and processPendingTraces never change a route's accepted *)
(* geometry; it changes only in the UPDATE of an operator's                *)
(* applySuggestion, and then to the suggested value.                       *)
C20_GeometryOnlyByApply ==
    [][\A r \in DOMAIN routes :
          routes'[r].geometry # routes[r].geometry =>
              /\ \E p \in Procs :
                    /\ local[p].op = "applySuggestion"
                    /\ local[p].userRole = "admin"
                    /\ local[p].route_id = r
                    /\ pc[p] = "apply_update"
                    /\ pc'[p] = "done"
              /\ routes'[r].geometry = routes[r].suggested_geometry]_vars

\* an operator-drawn geometry has been replaced by an applied ten-point suggestion,
\* with the traces it came from processed
C20_Witness ==
    /\ Len(routes[1].geometry.points) = 10
    /\ ~routes[1].has_suggestion
    /\ \E k \in 1..Len(route_traces) :
          route_traces[k].route_id = 1 /\ route_traces[k].status = "processed"
    /\ \E p \in Procs : pc[p] = "done" /\ local[p].op = "applySuggestion" /\ res[p].status = 200

----------------------------------------------------------------------------
(* Reports: backend/src/controllers/reportController.ts.  createReport,    *)
(* listNearbyReports and confirmReport over the table reports; a report    *)
(* row gets expires_at = NOW() + 30 minutes from the column default.       *)
(* Report coordinates are points of the 1-km grid Positions.               *)

REPORT_TTL == 1800       \* INTERVAL '30 minutes', in seconds
CONFIRM_CREDITS == 2

VALID_TYPES == {"bus_location", "traffic", "bus_full", "no_service", "detour"}

CREDITS_BY_TYPE ==
    [bus_location |-> 5, traffic |-> 4, bus_full |-> 3, no_service |-> 4, detour |-> 4]

ReportRiders == {1, 2}

\* req.body of POST /api/reports: a valid report, an unknown type, a missing type
CreateBodies ==
    [type : {"traffic", "ufo", ""}, latitude : {2}, longitude : {1}]

\* req.query of GET /api/reports/nearby; radius NULL = not given; lat 0 = not given
NearbyQueries == [lat : {0, 2, 3}, lng : {1}, radius : {NULL, 2}]

\* (variant: a report is still listed at the instant it expires)
NotExpired_Inclusive(report, t) == report.expires_at >= t

\* expires_at > NOW()
NotExpired(report, t) == report.expires_at > t

\* (variant: the reporter's own report is not told apart)
OwnReport_Never(report, userId) == FALSE

\* report.user_id === userId
OwnReport(report, userId) == report.user_id = userId

\* createReport: validation, then INSERT INTO reports ... RETURNING *; the
\* defaults give is_active, confirmations, created_at and expires_at
CreateReport(p, u, body) ==
    /\ pc[p] = "idle"
    /\ u \in DOMAIN users
    /\ nreq < MaxReportRequests
    /\ nreq' = nreq + 1
    /\ pre' = [pre EXCEPT ![p] = Snapshot]
    /\ IF body.type = "" \/ body.type \notin VALID_TYPES
         THEN /\ res' = [res EXCEPT ![p] = [status |-> 400]]
              /\ pc' = [pc EXCEPT ![p] = "done"]
              /\ local' = [local EXCEPT ![p] = [NoLocal EXCEPT !.op = "createReport", !.userId = u]]
              /\ reports' = reports
         ELSE LET report == [id |-> Len(reports) + 1, user_id |-> u, type |-> body.type,
                             latitude |-> body.latitude, longitude |-> body.longitude,
                             is_active |-> TRUE, confirmations |-> 0,
                             created_at |-> now, expires_at |-> now + REPORT_TTL]
              IN /\ reports' = Append(reports, report)
                 /\ local' = [local EXCEPT ![p] =
                        [caller |-> u, report |-> report] @@
                        [NoLocal EXCEPT !.op = "createReport", !.userId = u,
                                        !.trip = [id |-> NULL],
                                        !.amount = CREDITS_BY_TYPE[body.type],
                                        !.type = "earn", !.description = "Reporte",
                                        !.ret = "create_respond"]]
                 /\ res' = res
                 /\ pc' = [pc EXCEPT ![p] = "award_update"]
    /\ UNCHANGED <<now, users, active_trips, credit_transactions, events, awardLog, routes, route_traces, client, osrm>>

CreateReportRespond(p) ==
    /\ pc[p] = "create_respond"
    /\ res' = [res EXCEPT ![p] = [status |-> 201, report |-> local[p].report.id,
                                  credits_earned |-> local[p].amount]]
    /\ pc' = [pc EXCEPT ![p] = "done"]
    /\ UNCHANGED <<now, users, active_trips, credit_transactions, events, local, pre, awardLog, nreq, routes, route_traces, reports, client, osrm>>

\* listNearbyReports (no authMiddleware): 400 without lat or lng, else the ids of
\* the rows with is_active, expires_at > NOW() and distance < radius (default 1)
ListNearbyReports(p, query) ==
    /\ pc[p] = "idle"
    /\ nreq < MaxReportRequests
    /\ nreq' = nreq + 1
    /\ pre' = [pre EXCEPT ![p] = Snapshot]
    /\ local' = [local EXCEPT ![p] = [query |-> query] @@ [NoLocal EXCEPT !.op = "listNearby"]]
    /\ IF query.lat = 0 \/ query.lng = 0
         THEN res' = [res EXCEPT ![p] = [status |-> 400]]
         ELSE LET radiusKm == IF query.radius = NULL THEN 1 ELSE query.radius
                  rows == {k \in 1..Len(reports) :
                              /\ reports[k].is_active
                              /\ NotExpired(reports[k], now)
                              /\ haversineKm(query.lat, query.lng, reports[k].latitude,
                                             reports[k].longitude) < radiusKm}
              IN res' = [res EXCEPT ![p] = [status |-> 200, reports |-> rows]]
    /\ pc' = [pc EXCEPT ![p] = "done"]
    /\ UNCHANGED <<now, users, active_trips, credit_transactions, events, awardLog, routes, route_traces, reports, client, osrm>>

\* confirmReport: SELECT * FROM reports WHERE id = $1 AND is_active = true AND
\* expires_at > NOW(); 404 without a row, 400 for the reporter's own report
ConfirmReportSelect(p, u, id) ==
    /\ pc[p] = "idle"
    /\ u \in DOMAIN users
    /\ nreq < MaxReportRequests
    /\ nreq' = nreq + 1
    /\ pre' = [pre EXCEPT ![p] = Snapshot]
    /\ LET found == id \in 1..Len(reports) /\ reports[id].is_active /\ NotExpired(reports[id], now)
           base == [caller |-> u, id |-> id] @@ [NoLocal EXCEPT !.op = "confirmReport", !.userId = u]
       IN IF ~found
            THEN /\ res' = [res EXCEPT ![p] = [status |-> 404]]
                 /\ pc' = [pc EXCEPT ![p] = "done"]
                 /\ local' = [local EXCEPT ![p] = base]
            ELSE IF OwnReport(reports[id], u)
            THEN /\ res' = [res EXCEPT ![p] = [status |-> 400]]
                 /\ pc' = [pc EXCEPT ![p] = "done"]
                 /\ local' = [local EXCEPT ![p] = base]
            ELSE /\ res' = res
                 /\ pc' = [pc EXCEPT ![p] = "confirm_update"]
                 /\ local' = [local EXCEPT ![p] = [report |-> reports[id]] @@ base]
    /\ UNCHANGED <<now, users, active_trips, credit_transactions, events, awardLog, routes, route_traces, reports, client, osrm>>

\* UPDATE reports SET confirmations = confirmations + 1 WHERE id = $1 RETURNING
\* confirmations; then awardCredits(report.user_id, 2, 'earn', ...)
ConfirmReportUpdate(p) ==
    /\ pc[p] = "confirm_update"
    /\ reports' = [reports EXCEPT ![local[p].id].confirmations = @ + 1]
    /\ local' = [local EXCEPT ![p].updated = reports[local[p].id].confirmations + 1,
                              ![p].userId = local[p].report.user_id,
                              ![p].trip = [id |-> NULL],
                              ![p].amount = CONFIRM_CREDITS, ![p].type = "earn",
                              ![p].description = "Confirmacion de reporte",
                              ![p].ret = "confirm_respond"]
    /\ pc' = [pc EXCEPT ![p] = "award_update"]
    /\ UNCHANGED <<now, users, active_trips, credit_transactions, events, res, pre, awardLog, nreq, routes, route_traces, client, osrm>>

ConfirmReportRespond(p) ==
    /\ pc[p] = "confirm_respond"
    /\ res' = [res EXCEPT ![p] = [status |-> 200, confirmations |-> local[p].updated]]
    /\ pc' = [pc EXCEPT ![p] = "done"]
    /\ UNCHANGED <<now, users, active_trips, credit_transactions, events, local, pre, awardLog, nreq, routes, route_traces, reports, client, osrm>>

\* PATCH /api/reports/:id/resolve by the report's owner: is_active = false
ResolveReport(u, id) ==
    /\ Quiescent
    /\ id \in 1..Len(reports)
    /\ reports[id].user_id = u
    /\ reports[id].is_active
    /\ reports' = [reports EXCEPT ![id].is_active = FALSE]
    /\ UNCHANGED <<now, users, active_trips, credit_transactions, events, pc, local, res, pre, awardLog, nreq, routes, route_traces, client, osrm>>

\* the clock is observed every fifteen minutes and around the instants at which
\* a report expires (one second before, at, and one second after)
ReportTick ==
    /\ Quiescent
    /\ \E t \in {now + 900} \cup UNION {{reports[k].expires_at - 1, reports[k].expires_at,
                                          reports[k].expires_at + 1} : k \in 1..Len(reports)} :
          /\ t > now
          /\ t <= MaxReportTime
          /\ now' = t
    /\ UNCHANGED <<users, active_trips, credit_transactions, events, pc, local, res, pre, awardLog, nreq, routes, route_traces, reports, client, osrm>>

\* two registered riders, no report yet
ReportInit ==
    /\ now = 0
    /\ users = [u \in ReportRiders |-> NewUser(0)]
    /\ active_trips = <<>>
    /\ credit_transactions =
          [k \in 1..2 |-> [user_id |-> k, amount |-> WELCOME_CREDITS, type |-> "bonus",
                           description |-> "Creditos de bienvenida", created_at |-> 0]]
    /\ events = <<>>
    /\ pc = [p \in Procs |-> "idle"]
    /\ local = [p \in Procs |-> NoLocal]
    /\ res = [p \in Procs |-> NoRes]
    /\ pre = [p \in Procs |-> NoPre]
    /\ awardLog = <<>>
    /\ nreq = 0
    /\ routes = <<>>
    /\ route_traces = <<>>
    /\ reports = <<>>
    /\ client = NoClient
    /\ osrm = NoOsrm

\* requests handled one after another
ReportNext ==
    \/ ReportTick
    \/ Quiescent /\ \E p \in Procs, u \in ReportRiders, body \in CreateBodies : CreateReport(p, u, body)
    \/ Quiescent /\ \E p \in Procs, query \in NearbyQueries : ListNearbyReports(p, query)
    \/ Quiescent /\ \E p \in Procs, u \in ReportRiders, id \in 1..MaxReportRequests :
                        ConfirmReportSelect(p, u, id)
    \/ \E u \in ReportRiders, id \in 1..MaxReportRequests : ResolveReport(u, id)
    \/ \E p \in Procs :
          \/ CreateReportRespond(p)
          \/ ConfirmReportUpdate(p)
          \/ ConfirmReportRespond(p)
          \/ AwardCreditsUpdate(p)
          \/ AwardCreditsInsert(p)
          \/ Close(p)

ReportSpec == ReportInit /\ [][ReportNext]_vars

\* thirty minutes after its creation
ExpiryOf(report) == report.created_at + 30 * 60

(* C22: a listing never contains a report that is thirty minutes old or    *)
(* older, resolved or not, and no such report is confirmed; a listing      *)
(* contains every active report younger than thirty minutes that is within *)
(* the radius asked for.                                                   *)
C22_ReportsExpireAfterThirtyMinutes ==
    [][/\ \A p \in Procs :
            (pc[p] = "idle" /\ pc'[p] = "done" /\ local'[p].op = "listNearby"
                /\ res'[p].status = 200) =>
                \A k \in 1..Len(reports) :
                    /\ now >= ExpiryOf(reports[k]) => k \notin res'[p].reports
                    /\ (/\ now < ExpiryOf(reports[k])
                        /\ reports[k].is_active
                        /\ local'[p].query.radius # NULL
                        /\ KmApart(local'[p].query.lat, reports[k].latitude)
                               < local'[p].query.radius)
                         => k \in res'[p].reports
       /\ \A k \in 1..Len(reports) :
            reports'[k].confirmations # reports[k].confirmations => now < ExpiryOf(reports[k])
      ]_vars

\* a listing made at the very instant a report, never resolved and within the
\* radius, turns thirty minutes old, does not contain it
C22_Witness ==
    \E p \in Procs :
        /\ pc[p] = "done"
        /\ local[p].op = "listNearby"
        /\ res[p].status = 200
        /\ \E k \in 1..Len(reports) :
              /\ reports[k].is_active
              /\ now = ExpiryOf(reports[k])
              /\ reports[k].latitude = local[p].query.lat
              /\ k \notin res[p].reports

\* the confirmation request of slot p has been answered
Confirmed(p) == pc[p] = "done" /\ local[p].op = "confirmReport" /\ pre[p].set

(* C23: confirming an active, unexpired report of another rider raises its *)
(* confirmation count by exactly 1 and credits the reporter: one 'earn'    *)
(* transaction of the reporter, whose balance rises by its amount.  A      *)
(* confirmation by the reporter is rejected and changes no count and no    *)
(* balance.                                                                *)
C23_ConfirmCreditsReporter ==
    \A p \in Procs :
        (Confirmed(p) /\ local[p].id \in 1..Len(pre[p].reports)) =>
            LET id == local[p].id
                before == pre[p].reports[id]
                owner == before.user_id
                n == Len(credit_transactions)
            IN /\ (/\ local[p].caller # owner
                   /\ before.is_active
                   /\ pre[p].now < ExpiryOf(before)) =>
                      /\ res[p].status = 200
                      /\ reports[id].confirmations = before.confirmations + 1
                      /\ n = Len(pre[p].credit_transactions) + 1
                      /\ credit_transactions[n].user_id = owner
                      /\ credit_transactions[n].type = "earn"
                      /\ credit_transactions[n].amount > 0
                      /\ users[owner].credits =
                            pre[p].users[owner].credits + credit_transactions[n].amount
               /\ local[p].caller = owner =>
                      /\ res[p].status \in {400, 404}
                      /\ reports = pre[p].reports
                      /\ users = pre[p].users
                      /\ credit_transactions = pre[p].credit_transactions

\* rider 2 has confirmed a traffic report of rider 1, who now has 50 + 4 + 2 credits
C23_Witness ==
    \E p \in Procs :
        /\ Confirmed(p)
        /\ res[p].status = 200
        /\ local[p].caller = 2
        /\ reports[local[p].id].confirmations = 1
        /\ users[1].credits = 56
        /\ users[2].credits = 50

(* C24: a successful confirmation rewards both parties: the confirming     *)
(* rider and the reporter each get a credit transaction and a higher       *)
(* balance.                                                                *)
C24_ConfirmRewardsBoth ==
    \A p \in Procs :
        (Confirmed(p) /\ res[p].status = 200) =>
            \A u \in {local[p].caller, pre[p].reports[local[p].id].user_id} :
                /\ users[u].credits > pre[p].users[u].credits
                /\ \E k \in (Len(pre[p].credit_transactions) + 1)..Len(credit_transactions) :
                       credit_transactions[k].user_id = u

----------------------------------------------------------------------------
(* Road geometry: backend/src/services/osrmService.ts, fetchOSRMGeometry.  *)
(* The routing service is outside the program: each fetch either answers   *)
(* code 'Ok' with a route, answers another code, or throws (network       *)
(* error, timeout, malformed body).  The service's coordinates are         *)
(* [lng, lat] pairs; the function returns [lat, lng] pairs.                *)

\* the stop lists a caller may pass; latitude 0 is a falsy coordinate
OsrmStopLists ==
    UNION {[1..n -> [latitude : {0, 1, 2}, longitude : {1}]] : n \in 0..MaxOsrmStops}

\* geometry.coordinates of an 'Ok' answer for the waypoints w: the waypoints
\* themselves and, when via = 1, a point off the straight line between each two
OsrmCoordinates(w, via) ==
    IF via = 0 THEN [k \in 1..Len(w) |-> <<w[k].longitude, w[k].latitude>>]
    ELSE [k \in 1..(2 * Len(w) - 1) |->
            IF k % 2 = 1 THEN <<w[(k + 1) \div 2].longitude, w[(k + 1) \div 2].latitude>>
            ELSE <<w[k \div 2].longitude + 1, w[k \div 2].latitude>>]

\* .map(([lng, lat]) => [lat, lng])
LatLng(coordinates) == [k \in 1..Len(coordinates) |-> <<coordinates[k][2], coordinates[k][1]>>]

\* (variant: an answer without a route is taken as a route)
LegFailed_OnlyThrow(outcome) == outcome.code = "throw"

\* the else branch (code is not 'Ok' or routes[0] is missing) and the catch
LegFailed(outcome) == outcome.code # "Ok"

\* the call: filter the valid stops, return null when fewer than 2
OsrmBegin(stops) ==
    /\ osrm.phase \in {"idle", "done"}
    /\ LET valid == SelectSeq(stops, LAMBDA st : st.latitude # 0 /\ st.longitude # 0)
       IN osrm' = [NoOsrm EXCEPT !.stops = stops, !.valid = valid,
                                 !.phase = IF Len(valid) < 2 THEN "done" ELSE "full"]
    /\ UNCHANGED <<now, users, active_trips, credit_transactions, events, pc, local, res, pre, awardLog, nreq, routes, route_traces, reports, client>>

\* attempt 1: one request with all the valid stops
OsrmFullRoute(outcome) ==
    /\ osrm.phase = "full"
    /\ osrm' = IF outcome.code = "Ok"
                 THEN [osrm EXCEPT !.phase = "done",
                          !.outcomes = Append(@, [leg |-> 0, code |-> outcome.code]),
                          !.result = [null |-> FALSE, hadFallbacks |-> FALSE,
                                      points |-> LatLng(OsrmCoordinates(osrm.valid, outcome.via))]]
                 ELSE [osrm EXCEPT !.phase = "legs", !.i = 0,
                          !.outcomes = Append(@, [leg |-> 0, code |-> outcome.code])]
    /\ UNCHANGED <<now, users, active_trips, credit_transactions, events, pc, local, res, pre, awardLog, nreq, routes, route_traces, reports, client>>

\* attempt 2, one iteration of the loop: the request for the leg valid[i], valid[i+1]
\* (i counts from 0), its points or the straight line, and the return after the last leg
OsrmLeg(outcome) ==
    /\ osrm.phase = "legs"
    /\ LET from == osrm.valid[osrm.i + 1]
           to == osrm.valid[osrm.i + 2]
           all == osrm.allPoints
           segmentPoints == LatLng(OsrmCoordinates(<<from, to>>, outcome.via))
           pushed ==
               IF ~LegFailed(outcome)
                 THEN all \o (IF Len(all) > 0 THEN Tail(segmentPoints) ELSE segmentPoints)
                 ELSE (IF Len(all) = 0 \/ all[Len(all)][1] # from.latitude
                         THEN Append(all, <<from.latitude, from.longitude>>) ELSE all)
                      \o << <<to.latitude, to.longitude>> >>
           fallbacks == osrm.hadFallbacks \/ LegFailed(outcome)
           last == osrm.i + 1 = Len(osrm.valid) - 1
       IN osrm' = [osrm EXCEPT
                      !.allPoints = pushed,
                      !.hadFallbacks = fallbacks,
                      !.i = @ + 1,
                      !.outcomes = Append(@, [leg |-> osrm.i + 1, code |-> outcome.code]),
                      !.phase = IF last THEN "done" ELSE "legs",
                      !.result = IF last /\ Len(pushed) >= 2
                                   THEN [null |-> FALSE, points |-> pushed,
                                         hadFallbacks |-> fallbacks]
                                   ELSE @]
    /\ UNCHANGED <<now, users, active_trips, credit_transactions, events, pc, local, res, pre, awardLog, nreq, routes, route_traces, reports, client>>

OsrmNext ==
    \/ \E stops \in OsrmStopLists : OsrmBegin(stops)
    \/ \E outcome \in [code : {"Ok", "NoRoute", "throw"}, via : {0, 1}] : OsrmFullRoute(outcome)
    \/ \E outcome \in [code : {"Ok", "NoRoute", "throw"}, via : {0, 1}] : OsrmLeg(outcome)

OsrmSpec == Init /\ [][OsrmNext]_vars

\* the stops with both coordinates, in the order given
ValidStops == SelectSeq(osrm.stops, LAMBDA st : st.latitude # 0 /\ st.longitude # 0)

\* the straight line of leg k (from stop k to stop k + 1) is part of the polyline
HasStraightLine(points, k) ==
    \E j \in 1..(Len(points) - 1) :
        /\ points[j] = <<ValidStops[k].latitude, ValidStops[k].longitude>>
        /\ points[j + 1] = <<ValidStops[k + 1].latitude, ValidStops[k + 1].longitude>>

(* C27: a finished call of fetchOSRMGeometry has tried the full route      *)
(* first and, if that succeeded, returns it with hadFallbacks = false      *)
(* without trying any leg; only otherwise it has tried every leg in order, *)
(* and hadFallbacks is true exactly if a leg failed, each failed leg being *)
(* replaced by its straight line.  The result is null exactly if there are *)
(* fewer than 2 valid stops, and otherwise a polyline of at least 2 points *)
(* from the first valid stop to the last, whatever the service answered.   *)
C27_FullRouteThenLegs ==
    osrm.phase = "done" =>
        LET n == Len(ValidStops)
            log == osrm.outcomes
            result == osrm.result
        IN IF n < 2 THEN result.null /\ log = <<>>
           ELSE /\ ~result.null
                /\ Len(result.points) >= 2
                /\ result.points[1] = <<ValidStops[1].latitude, ValidStops[1].longitude>>
                /\ result.points[Len(result.points)]
                      = <<ValidStops[n].latitude, ValidStops[n].longitude>>
                /\ log[1].leg = 0
                /\ IF log[1].code = "Ok"
                     THEN Len(log) = 1 /\ ~result.hadFallbacks
                     ELSE /\ Len(log) = n
                          /\ \A k \in 1..(n - 1) :
                                /\ log[k + 1].leg = k
                                /\ log[k + 1].code # "Ok" => HasStraightLine(result.points, k)
                          /\ result.hadFallbacks = (\E k \in 2..n : log[k].code # "Ok")

\* three valid stops, the full route and the first leg fail, the second leg succeeds
C27_Witness ==
    /\ osrm.phase = "done"
    /\ Len(ValidStops) = 3
    /\ Len(osrm.outcomes) = 3
    /\ osrm.outcomes[1].code = "throw"
    /\ osrm.outcomes[2].code = "NoRoute"
    /\ osrm.outcomes[3].code = "Ok"
    /\ osrm.result.hadFallbacks
    /\ Len(osrm.result.points) = 4

----------------------------------------------------------------------------
(* The rider's client: web/src/components/CatchBusMode.tsx.  The variable  *)
(* client holds the component's state and refs.  client.timers is the set  *)
(* of timers whose handle a ref of the mounted component holds, and        *)
(* client.orphans counts, per timer, the handles that run on without any   *)
(* ref holding them.  Positions are metres along one street; the route's   *)
(* stops are at 0 and 750.  History, not program state: serverTrip and     *)
(* serverDestination (the server's view), deadLoads (getCurrent requests   *)
(* of unmounted instances still in flight), farRun (far polls in a row, a  *)
(* far poll being one more than 250 m from every stop), stillRun (polls in *)
(* a row that found the rider less than 50 m from the previous poll), sent *)
(* (whether the last position report left with or without an active       *)
(* trip), closedBy (what ended the last trip), answer (the answer to the   *)
(* inactivity prompt last raised), optedIn (the rider paid for the drop-off alert  *)
(* of this trip) and silencedAt (when "Ignorar (5 min)" was last pressed). *)

haversineMeters(a, b) == IF a >= b THEN a - b ELSE b - a

\* Date.now(), in seconds: a positive number
DateNow == now + 1

TimerNames ==
    {"location", "clock", "gpsCheck", "monitor1", "monitor2", "monitor3", "monitor4", "autoClose"}

\* ref.current = setInterval(...) / setTimeout(...): a handle the ref still held
\* is no longer reachable and goes on running
setTimer(c, name) ==
    IF name \in c.timers THEN [c EXCEPT !.orphans[name] = @ + 1]
                         ELSE [c EXCEPT !.timers = @ \cup {name}]

\* clearAllIntervals
clearAllIntervals(c) == [c EXCEPT !.timers = @ \ {"location", "clock", "gpsCheck"}]

\* startActiveIntervals
startActiveIntervals(c) ==
    setTimer(setTimer(setTimer(clearAllIntervals(c), "location"), "clock"), "gpsCheck")

\* the effects on [activeTrip] after activeTrip has changed: the cleanups of
\* monitors 1-4 (the one of monitor 3 clears the auto-close timeout too), then,
\* with a trip, the monitors are set up again; monitor 4 only with a destination
TripEffects(c, role) ==
    LET c0 == [c EXCEPT !.timers = @ \ {"monitor1", "monitor2", "monitor3", "monitor4", "autoClose"}]
        c3 == setTimer(setTimer(setTimer(
                  [c0 EXCEPT !.outOfRouteSeconds = 0, !.farRun = 0,
                             !.lastPosition = NULL, !.inactiveSeconds = 0, !.stillRun = 0],
                  "monitor1"), "monitor2"), "monitor3")
    IN IF ~c.activeTrip THEN c0
       ELSE IF c.destination = NULL THEN c3
       ELSE setTimer([c3 EXCEPT !.alertActivated = (role \in {"premium", "admin"}),
                                !.prevDistToDest = NULL,
                                !.dropoffPrompt = IF role \in {"premium", "admin"} THEN @ ELSE TRUE],
                     "monitor4")

\* (variant: 250 m itself counts as out of route)
OutOfRoute_Inclusive(minDist) == minDist >= 250

\* if (minDist > 250)
OutOfRoute(minDist) == minDist > 250

\* (variant: the window is over a minute early)
IgnoreOver_Early(t, until) == t + 60 > until

\* Date.now() > ignoreDeviationUntilRef.current
IgnoreOver(t, until) == t > until

\* (variant: nine minutes are enough)
InactiveTooLong_Early(seconds) == seconds >= 540

\* if (inactiveSecondsRef.current >= 600)
InactiveTooLong(seconds) == seconds >= 600

\* if (!autoCloseTimerRef.current)
AutoCloseUnset(c) == "autoClose" \notin c.timers

\* (variant: 200 m itself is past the stop)
AtStop_Strict(dist) == dist < 200

\* dist <= 200
AtStop(dist) == dist <= 200

\* the banner monitor 4 sets for the previous and the current distance
DropoffBannerFor(prev, dist) ==
    IF prev # NULL /\ AtStop(prev) /\ ~AtStop(dist) THEN "missed"
    ELSE IF AtStop(dist) THEN "now"
    ELSE IF dist <= 400 THEN "prepare"
    ELSE "none"

\* the userPosition prop changes (null while there is no GPS fix)
GpsFix(pos) ==
    /\ pos # client.userPosition
    /\ client' = [client EXCEPT !.userPosition = pos]
    /\ UNCHANGED <<now, users, active_trips, credit_transactions, events, pc, local, res, pre, awardLog, nreq, routes, route_traces, reports, osrm>>

\* time passes
ClockAdvance(d) ==
    /\ now + d <= MaxClock
    /\ now' = now + d
    /\ UNCHANGED <<users, active_trips, credit_transactions, events, pc, local, res, pre, awardLog, nreq, routes, route_traces, reports, client, osrm>>

\* handleStart with a successful tripsApi.start: setActiveTrip, startActiveIntervals,
\* and the effects on [activeTrip]; dest is the trip's destination stop (or NULL)
\* and role the rider's role
HandleStart(dest, role) ==
    /\ client.mounted
    /\ ~client.activeTrip
    /\ client.pending = {}
    /\ client.userPosition # NULL
    /\ client' = TripEffects(
                    startActiveIntervals(
                        [client EXCEPT !.activeTrip = TRUE, !.serverTrip = TRUE, !.view = "active",
                                       !.destination = dest, !.serverDestination = dest,
                                       !.role = role, !.optedIn = FALSE, !.closedBy = "none"]),
                    role)
    /\ UNCHANGED <<now, users, active_trips, credit_transactions, events, pc, local, res, pre, awardLog, nreq, routes, route_traces, reports, osrm>>

\* routesApi.getById answers: routeStopsRef gets the stops of the route
LoadStops ==
    /\ client.activeTrip
    /\ client.routeStops = {}
    /\ client' = [client EXCEPT !.routeStops = {0, 750}]
    /\ UNCHANGED <<now, users, active_trips, credit_transactions, events, pc, local, res, pre, awardLog, nreq, routes, route_traces, reports, osrm>>

\* the 30-s location interval fires with a position: tripsApi.updateLocation
LocationTick ==
    /\ "location" \in client.timers
    /\ client.userPosition # NULL
    /\ client' = [client EXCEPT !.sent = IF client.activeTrip THEN "active" ELSE "ended"]
    /\ UNCHANGED <<now, users, active_trips, credit_transactions, events, pc, local, res, pre, awardLog, nreq, routes, route_traces, reports, osrm>>

\* monitor 2, one poll that has a position and the stops
Monitor2Poll ==
    /\ "monitor2" \in client.timers
    /\ client.userPosition # NULL
    /\ client.routeStops # {}
    /\ LET pos == client.userPosition
           minDist == CHOOSE d \in {haversineMeters(pos, st) : st \in client.routeStops} :
                          \A st \in client.routeStops : d <= haversineMeters(pos, st)
           seconds == IF OutOfRoute(minDist) THEN client.outOfRouteSeconds + 30 ELSE 0
       IN /\ seconds <= MaxOutOfRouteSeconds
          /\ client' = [client EXCEPT
                !.outOfRouteSeconds = seconds,
                !.deviationAlert = IF /\ OutOfRoute(minDist)
                                      /\ seconds >= 90
                                      /\ IgnoreOver(DateNow, client.ignoreDeviationUntil)
                                     THEN TRUE ELSE @,
                !.farRun = IF minDist > 250 THEN @ + 1 ELSE 0]
    /\ UNCHANGED <<now, users, active_trips, credit_transactions, events, pc, local, res, pre, awardLog, nreq, routes, route_traces, reports, osrm>>

\* monitor 3, one poll that has a position
Monitor3Poll ==
    /\ "monitor3" \in client.timers
    /\ client.userPosition # NULL
    /\ LET pos == client.userPosition
           seconds == IF client.lastPosition = NULL THEN client.inactiveSeconds
                      ELSE IF haversineMeters(client.lastPosition, pos) < 50
                             THEN client.inactiveSeconds + 60 ELSE 0
           c1 == [client EXCEPT
                     !.inactiveSeconds = seconds,
                     !.lastPosition = pos,
                     !.inactiveAlert = IF InactiveTooLong(seconds) THEN TRUE ELSE @,
                     !.answer = IF InactiveTooLong(seconds) THEN "none" ELSE @,
                     !.stillRun = IF client.lastPosition = NULL THEN @
                                  ELSE IF client.lastPosition - pos \in -49..49 THEN @ + 1 ELSE 0]
       IN /\ seconds <= MaxInactiveSeconds
          /\ client' = IF InactiveTooLong(seconds) /\ AutoCloseUnset(client)
                         THEN setTimer(c1, "autoClose") ELSE c1
    /\ UNCHANGED <<now, users, active_trips, credit_transactions, events, pc, local, res, pre, awardLog, nreq, routes, route_traces, reports, osrm>>

\* the 120-s auto-close timeout fires: autoCloseTimerRef.current = null and
\* tripsApi.end() is sent
AutoCloseFires ==
    /\ "autoClose" \in client.timers
    /\ client' = [client EXCEPT !.timers = @ \ {"autoClose"}, !.pending = @ \cup {"autoclose"}]
    /\ UNCHANGED <<now, users, active_trips, credit_transactions, events, pc, local, res, pre, awardLog, nreq, routes, route_traces, reports, osrm>>

\* .catch(() => {}).finally(...) of the auto-close, whether the server ended the
\* trip (ok) or not; setActiveTrip(null) runs the cleanups of the monitors' effects
AutoCloseFinally(ok) ==
    /\ "autoclose" \in client.pending
    /\ ok => client.serverTrip
    /\ client' = TripEffects(
                    [client EXCEPT
                        !.pending = @ \ {"autoclose"},
                        !.serverTrip = IF ok THEN FALSE ELSE @,
                        !.inactiveAlert = FALSE, !.activeTrip = FALSE, !.view = "summary",
                        !.closedBy = IF client.activeTrip THEN "auto" ELSE @],
                    client.role)
    /\ UNCHANGED <<now, users, active_trips, credit_transactions, events, pc, local, res, pre, awardLog, nreq, routes, route_traces, reports, osrm>>

\* handleEnd up to its await
HandleEndBegin ==
    /\ client.activeTrip
    /\ "end" \notin client.pending
    /\ client' = [client EXCEPT !.pending = @ \cup {"end"}]
    /\ UNCHANGED <<now, users, active_trips, credit_transactions, events, pc, local, res, pre, awardLog, nreq, routes, route_traces, reports, osrm>>

\* handleEnd after tripsApi.end(): on success clearAllIntervals, the monitors,
\* the auto-close timeout, the alerts and banners; on failure only a toast
HandleEndResponse(ok) ==
    /\ "end" \in client.pending
    /\ ok => client.serverTrip
    /\ client' = IF ok
                   THEN TripEffects(
                            clearAllIntervals(
                                [client EXCEPT !.pending = @ \ {"end"}, !.serverTrip = FALSE,
                                    !.deviationAlert = FALSE, !.inactiveAlert = FALSE,
                                    !.dropoffPrompt = FALSE, !.dropoffBanner = "none",
                                    !.closedBy = IF client.activeTrip THEN "end" ELSE @,
                                    !.activeTrip = FALSE, !.view = "summary"]),
                            client.role)
                   ELSE [client EXCEPT !.pending = @ \ {"end"}]
    /\ UNCHANGED <<now, users, active_trips, credit_transactions, events, pc, local, res, pre, awardLog, nreq, routes, route_traces, reports, osrm>>

\* a button of the deviation banner: report / got off (ignore = FALSE) or
\* "Ignorar (5 min)" (ignore = TRUE)
DeviationDismiss(ignore) ==
    /\ client.deviationAlert
    /\ client.activeTrip
    /\ client' = [client EXCEPT !.deviationAlert = FALSE,
                                !.ignoreDeviationUntil = IF ignore THEN DateNow + 300 ELSE @,
                                !.silencedAt = IF ignore THEN DateNow ELSE @]
    /\ UNCHANGED <<now, users, active_trips, credit_transactions, events, pc, local, res, pre, awardLog, nreq, routes, route_traces, reports, osrm>>

\* "Si, sigo viajando" in the inactivity modal
InactiveStillHere ==
    /\ client.inactiveAlert
    /\ client.activeTrip
    /\ client' = [client EXCEPT !.inactiveSeconds = 0, !.stillRun = 0, !.inactiveAlert = FALSE,
                                !.answer = "yes", !.timers = @ \ {"autoClose"}]
    /\ UNCHANGED <<now, users, active_trips, credit_transactions, events, pc, local, res, pre, awardLog, nreq, routes, route_traces, reports, osrm>>

\* "No, ya me bajé" in the inactivity modal
InactiveGotOff ==
    /\ client.inactiveAlert
    /\ client.activeTrip
    /\ client' = [client EXCEPT !.inactiveAlert = FALSE, !.answer = "no",
                                !.timers = @ \ {"autoClose"}]
    /\ UNCHANGED <<now, users, active_trips, credit_transactions, events, pc, local, res, pre, awardLog, nreq, routes, route_traces, reports, osrm>>

\* monitor 4, one poll of an activated watcher that has a position
Monitor4Poll ==
    /\ "monitor4" \in client.timers
    /\ client.alertActivated
    /\ client.userPosition # NULL
    /\ LET dist == haversineMeters(client.userPosition, client.destination)
       IN client' = [client EXCEPT
                        !.dropoffBanner = DropoffBannerFor(client.prevDistToDest, dist),
                        !.prevDistToDest = dist]
    /\ UNCHANGED <<now, users, active_trips, credit_transactions, events, pc, local, res, pre, awardLog, nreq, routes, route_traces, reports, osrm>>

\* "Activar (12 creditos)" in the activation prompt, whether creditsApi.spend
\* succeeds (ok) or not
DropoffActivate(ok) ==
    /\ client.dropoffPrompt
    /\ client.activeTrip
    /\ client' = IF ok THEN [client EXCEPT !.alertActivated = TRUE, !.dropoffPrompt = FALSE,
                                           !.optedIn = TRUE]
                       ELSE client
    /\ UNCHANGED <<now, users, active_trips, credit_transactions, events, pc, local, res, pre, awardLog, nreq, routes, route_traces, reports, osrm>>

\* "No activar" in the activation prompt
DropoffDecline ==
    /\ client.dropoffPrompt
    /\ client.activeTrip
    /\ client' = [client EXCEPT !.dropoffPrompt = FALSE]
    /\ UNCHANGED <<now, users, active_trips, credit_transactions, events, pc, local, res, pre, awardLog, nreq, routes, route_traces, reports, osrm>>

\* the sheet leaves 'trip' mode: the component unmounts, the cleanups of all its
\* effects run and its state and refs are gone.  A getCurrent still in flight
\* will answer to the unmounted instance; an End in flight reaches the server (ok)
\* or not
Unmount(ok) ==
    /\ client.mounted
    /\ client' = [NoClient EXCEPT
                    !.mounted = FALSE,
                    !.mounts = client.mounts,
                    !.userPosition = client.userPosition,
                    !.orphans = client.orphans,
                    !.deadLoads = client.deadLoads + (IF "getCurrent" \in client.pending THEN 1 ELSE 0),
                    !.serverTrip = IF ok /\ client.pending \cap {"end", "autoclose"} # {}
                                     THEN FALSE ELSE client.serverTrip,
                    !.serverDestination = client.serverDestination]
    /\ UNCHANGED <<now, users, active_trips, credit_transactions, events, pc, local, res, pre, awardLog, nreq, routes, route_traces, reports, osrm>>

\* the sheet enters 'trip' mode: a new instance, whose init effect asks
\* tripsApi.getCurrent()
Mount ==
    /\ ~client.mounted
    /\ client.mounts < MaxMounts
    /\ client' = [client EXCEPT !.mounted = TRUE, !.mounts = @ + 1, !.pending = {"getCurrent"}]
    /\ UNCHANGED <<now, users, active_trips, credit_transactions, events, pc, local, res, pre, awardLog, nreq, routes, route_traces, reports, osrm>>

\* getCurrent answers to the mounted instance (ok) or fails: with a trip,
\* setActiveTrip, startActiveIntervals, setView('active')
RecoverTrip(ok, role) ==
    /\ client.mounted
    /\ "getCurrent" \in client.pending
    /\ client' = IF ok /\ client.serverTrip
                   THEN TripEffects(
                            startActiveIntervals(
                                [client EXCEPT !.pending = @ \ {"getCurrent"},
                                               !.activeTrip = TRUE, !.view = "active",
                                               !.destination = client.serverDestination,
                                               !.role = role, !.optedIn = FALSE,
                                               !.closedBy = "none"]),
                            role)
                   ELSE [client EXCEPT !.pending = @ \ {"getCurrent"}]
    /\ UNCHANGED <<now, users, active_trips, credit_transactions, events, pc, local, res, pre, awardLog, nreq, routes, route_traces, reports, osrm>>

\* getCurrent answers to an instance that has unmounted: its startActiveIntervals
\* sets three intervals that no cleanup will clear
RecoverTripUnmounted(ok) ==
    /\ client.deadLoads > 0
    /\ client' = IF ok /\ client.serverTrip
                   THEN [client EXCEPT !.deadLoads = @ - 1,
                                       !.orphans["location"] = @ + 1,
                                       !.orphans["clock"] = @ + 1,
                                       !.orphans["gpsCheck"] = @ + 1]
                   ELSE [client EXCEPT !.deadLoads = @ - 1]
    /\ UNCHANGED <<now, users, active_trips, credit_transactions, events, pc, local, res, pre, awardLog, nreq, routes, route_traces, reports, osrm>>

\* one mounted component: trips, monitors 2 and 3, the auto-close
ClientNext ==
    \/ \E pos \in {NULL, 0, 40, 250, 251, 500} : GpsFix(pos)
    \/ HandleStart(NULL, "free")
    \/ LoadStops
    \/ LocationTick
    \/ Monitor2Poll
    \/ Monitor3Poll
    \/ AutoCloseFires
    \/ \E ok \in BOOLEAN : AutoCloseFinally(ok)
    \/ HandleEndBegin
    \/ \E ok \in BOOLEAN : HandleEndResponse(ok)
    \/ \E ignore \in BOOLEAN : DeviationDismiss(ignore)
    \/ InactiveStillHere
    \/ InactiveGotOff

ClientSpec == Init /\ [][ClientNext]_vars

\* the deviation detector against the clock, half a minute at a time
DeviationNext ==
    \/ \E pos \in {0, 251} : GpsFix(pos)
    \/ HandleStart(NULL, "free")
    \/ LoadStops
    \/ Monitor2Poll
    \/ \E ignore \in BOOLEAN : DeviationDismiss(ignore)
    \/ ClockAdvance(30)
    \/ HandleEndBegin
    \/ HandleEndResponse(TRUE)

DeviationSpec == Init /\ [][DeviationNext]_vars

\* the drop-off watcher, with the ways a trip ends
DropoffNext ==
    \/ \E pos \in {NULL, 0, 50, 250, 251, 500} : GpsFix(pos)
    \/ \E dest \in {NULL, 450}, role \in {"free", "premium"} : HandleStart(dest, role)
    \/ Monitor4Poll
    \/ \E ok \in BOOLEAN : DropoffActivate(ok)
    \/ DropoffDecline
    \/ Monitor3Poll
    \/ AutoCloseFires
    \/ \E ok \in BOOLEAN : AutoCloseFinally(ok)
    \/ HandleEndBegin
    \/ \E ok \in BOOLEAN : HandleEndResponse(ok)

DropoffSpec == Init /\ [][DropoffNext]_vars

\* the component's life: mounts and unmounts, recovery on load, trips and
\* the auto-close
MountNext ==
    \/ \E pos \in {NULL, 0} : GpsFix(pos)
    \/ \E dest \in {NULL, 450} : HandleStart(dest, "free")
    \/ Monitor3Poll
    \/ AutoCloseFires
    \/ \E ok \in BOOLEAN : AutoCloseFinally(ok)
    \/ HandleEndBegin
    \/ \E ok \in BOOLEAN : HandleEndResponse(ok)
    \/ \E ok \in BOOLEAN : Unmount(ok)
    \/ Mount
    \/ \E ok \in BOOLEAN : RecoverTrip(ok, "free")
    \/ \E ok \in BOOLEAN : RecoverTripUnmounted(ok)

MountSpec == Init /\ [][MountNext]_vars

(* C25: the deviation detector raises its alert only when the out-of-route *)
(* counter has reached 90 s, that is after three polls in a row each more  *)
(* than 250 m from every stop; the counter is 30 s per such poll, and a    *)
(* poll within 250 m of a stop puts it back to 0.                          *)
C25_DeviationNeedsNinetySeconds ==
    /\ [](client.outOfRouteSeconds = 30 * client.farRun)
    /\ [][(client'.deviationAlert /\ ~client.deviationAlert) =>
              (client'.outOfRouteSeconds >= 90 /\ client'.farRun >= 3)]_vars

\* the alert has been raised by the third far poll in a row
C25_Witness ==
    /\ client.deviationAlert
    /\ client.farRun = 3
    /\ client.outOfRouteSeconds = 90

(* C26: while the client has no active trip no timer is scheduled, and no  *)
(* position report leaves the client without an active trip.               *)
C26_NoTimerWithoutTrip ==
    /\ ~client.activeTrip => client.timers = {}
    /\ client.sent # "ended"

(* C21: when two consensus runs of one route overlap, no pending trace is *)
(* used by both: of two runs that have published, the sets of traces they  *)
(* read are disjoint.                                                      *)
HasPublished(p) ==
    /\ local[p].op = "saveTrace"
    /\ pc[p] \in {"process_update_traces", "done"}
    /\ Cardinality(local[p].read) >= 5

C21_TraceClaimedByOneRun ==
    \A p, q \in Procs :
        (p # q /\ HasPublished(p) /\ HasPublished(q)) =>
            local[p].read \cap local[q].read = {}

\* the cell of a coordinate: the multiple of ten (0.0001 degrees) nearest to it
CellOf(x) == CHOOSE c \in 0..100 : 10 * c - 5 <= x /\ x < 10 * c + 5
CellOfPoint(pt) == <<CellOf(pt.lat), CellOf(pt.lng)>>

\* the points of the pending traces of route r, trace after trace
RECURSIVE PendingPoints(_, _, _)
PendingPoints(traces, k, r) ==
    IF k > Len(traces) THEN <<>>
    ELSE (IF traces[k].route_id = r /\ traces[k].status = "pending"
            THEN traces[k].points ELSE <<>>)
         \o PendingPoints(traces, k + 1, r)

FirstAt(pts, cell) == CHOOSE i \in 1..Len(pts) :
                         /\ CellOfPoint(pts[i]) = cell
                         /\ \A j \in 1..(i - 1) : CellOfPoint(pts[j]) # cell

RECURSIVE SumIn(_, _, _)
SumIn(pts, cell, field) ==
    IF pts = <<>> THEN 0
    ELSE (IF CellOfPoint(Head(pts)) = cell THEN Head(pts)[field] ELSE 0)
         + SumIn(Tail(pts), cell, field)

\* the fraction <<n, d>> is the mean of a sum over count values
IsMean(frac, sum, count) == frac[2] > 0 /\ frac[1] * count = frac[2] * sum

\* geometry g is the consensus of the points pts
IsConsensusOf(g, pts) ==
    LET cells == {CellOfPoint(pts[i]) : i \in 1..Len(pts)}
    IN /\ Len(g) = Cardinality(cells)
       /\ \A cell \in cells :
            LET k == 1 + Cardinality({c \in cells : FirstAt(pts, c) < FirstAt(pts, cell)})
                n == Cardinality({i \in 1..Len(pts) : CellOfPoint(pts[i]) = cell})
            IN /\ IsMean(g[k][1], SumIn(pts, cell, "lat"), n)
               /\ IsMean(g[k][2], SumIn(pts, cell, "lng"), n)

(* C29: the suggested geometry a run publishes has one point per distinct  *)
(* cell of the pending traces' points, each the centroid of its cell, in   *)
(* the order in which the cells first appear in the flattened points; the  *)
(* published trace count is the number of traces consumed.                 *)
C29_GeometryIsCellCentroids ==
    \A p \in Procs :
        (local[p].op = "saveTrace" /\ pc[p] = "process_update_traces") =>
            LET r == local[p].route_id
            IN /\ routes[r].has_suggestion
               /\ IsConsensusOf(routes[r].suggested_geometry.points,
                                PendingPoints(route_traces, 1, r))
               /\ routes[r].suggestion_trace_count = Cardinality(local[p].read)
               /\ local[p].read = {route_traces[k].id : k \in PendingOf(route_traces, r)}

\* four traces taken standing and one ride: 11 cells, the first centroid is the mean
\* of the readings 0 and 4, and the count is 5
C29_Witness ==
    \E p \in Procs :
        /\ local[p].op = "saveTrace"
        /\ pc[p] = "process_update_traces"
        /\ Len(routes[1].suggested_geometry.points) = 11
        /\ routes[1].suggested_geometry.points[1] = << <<2, 1>>, <<0, 1>> >>
        /\ routes[1].suggestion_trace_count = 5

(* C30: under any interleaving, the traces a run marks processed are the   *)
(* traces it read, and the trace count it publishes is their number: a     *)
(* trace inserted after the read stays pending and the count is never      *)
(* overwritten by a smaller one.                                           *)
C30_MarksAndCountsWhatItRead ==
    [][\A p \in Procs :
          /\ (pc[p] = "process_update_route" /\ pc'[p] = "process_update_traces") =>
                routes'[local[p].route_id].suggestion_trace_count
                    = Cardinality(local[p].read)
          /\ (pc[p] = "process_update_traces" /\ pc'[p] = "done") =>
                \A k \in 1..Len(route_traces) :
                    route_traces'[k].status # route_traces[k].status =>
                        route_traces[k].id \in local[p].read]_vars

\* the completion bonuses credited for trip id
BonusesFor(id) ==
    {k \in 1..Len(awardLog) : awardLog[k].tripId = id /\ awardLog[k].amount = 10}

(* C28: whenever no End is in flight, the completion bonus has been        *)
(* credited for a trip exactly when the trip has been made inactive, and   *)
(* never more than once, also after the deactivating update has failed.    *)
C28_BonusIffInactive ==
    (\A p \in Procs : pc[p] = "idle") =>
        \A id \in 1..Len(active_trips) :
            Cardinality(BonusesFor(id)) = (IF active_trips[id].is_active THEN 0 ELSE 1)

(* C32: the apply action changes a route's accepted geometry only when the *)
(* route has a pending suggestion, and never to null nor to a geometry of  *)
(* fewer than 2 points.                                                    *)
C32_ApplyNeedsSuggestion ==
    [][\A r \in 1..Len(routes) :
          routes'[r].geometry # routes[r].geometry =>
              /\ routes[r].has_suggestion
              /\ ~routes'[r].geometry.null
              /\ Len(routes'[r].geometry.points) >= 2]_vars

\* the sum of the credits granted for trip id
RECURSIVE GrantedTotal(_, _)
GrantedTotal(log, id) ==
    IF log = <<>> THEN 0
    ELSE (IF Head(log).tripId = id THEN Head(log).amount ELSE 0) + GrantedTotal(Tail(log), id)

(* C38: whenever no request is in flight, the credits_earned of every trip *)
(* is the total of the credits granted for that trip, whatever the         *)
(* interleaving of its position reports and its End has been.              *)
C38_CreditsEarnedIsGrantedTotal ==
    (\A p \in Procs : pc[p] \in {"idle", "done"}) =>
        \A id \in 1..Len(active_trips) :
            active_trips[id].credits_earned = GrantedTotal(awardLog, id)

(* C39: an ended trip is terminal: no step changes the position, the       *)
(* last-position timestamp or the credits of a trip that is not active,    *)
(* and on the broadcast channel no 'joined' or 'location' event of a trip  *)
(* comes after its 'left' event.                                           *)
C39_EndedTripIsTerminal ==
    /\ [](\A i, j \in 1..Len(events) :
            (i < j /\ events[i].name = "bus:left" /\ events[j].tripId = events[i].tripId)
                => events[j].name \notin {"bus:joined", "bus:location"})
    /\ [][\A id \in 1..Len(active_trips) :
            ~active_trips[id].is_active =>
                /\ active_trips'[id].current_latitude = active_trips[id].current_latitude
                /\ active_trips'[id].current_longitude = active_trips[id].current_longitude
                /\ active_trips'[id].last_location_at = active_trips[id].last_location_at
                /\ active_trips'[id].credits_earned = active_trips[id].credits_earned]_vars

(* C40: the confirmations of a report never exceed the number of riders    *)
(* other than its reporter: however often a rider repeats the confirm      *)
(* request, that rider adds at most 1 to the count.                        *)
C40_OneConfirmationPerRider ==
    \A k \in 1..Len(reports) :
        reports[k].confirmations <= Cardinality(DOMAIN users \ {reports[k].user_id})

\* C31: discarding a route's suggestion clears it and marks as discarded exactly the
\* traces consumed to produce that suggestion: the traces consumed by the earlier
\* suggestion that was applied keep status 'processed', and once the discard has
\* answered the route has no suggestion and no trace consumed since is left 'processed'
AppliedTraceIds == {AppliedTraces[k].id : k \in 1..Len(AppliedTraces)}

C31_DiscardOnlyConsumedTraces ==
    /\ \A k \in 1..Len(route_traces) :
           route_traces[k].id \in AppliedTraceIds => route_traces[k].status = "processed"
    /\ \A p \in Procs :
           (pc[p] = "done" /\ local[p].op = "discardSuggestion" /\ res[p].status = 200) =>
               /\ ~routes[local[p].route_id].has_suggestion
               /\ \A k \in 1..Len(route_traces) :
                      (route_traces[k].route_id = local[p].route_id
                         /\ route_traces[k].id \notin AppliedTraceIds) =>
                          route_traces[k].status # "processed"

C31_Discarded ==
    \E p \in Procs :
        /\ pc[p] = "done" /\ local[p].op = "discardSuggestion" /\ res[p].status = 200
        /\ \E k \in 1..Len(route_traces) :
               route_traces[k].id \in AppliedTraceIds /\ route_traces[k].status = "discarded"
        /\ \E k \in 1..Len(route_traces) :
               route_traces[k].id \notin AppliedTraceIds /\ route_traces[k].status = "discarded"


\* the timers of one kind that are scheduled: the one a ref holds and the orphans
Instances(name) == (IF name \in client.timers THEN 1 ELSE 0) + client.orphans[name]

C34_AutoCloseEndsServerTrip ==
    (client.closedBy = "auto" /\ ~client.activeTrip) => ~client.serverTrip

\* C35: a poll of the drop-off watcher happens only for a premium rider or one who
\* paid the opt-in, and sets the banner from the previous and the current distance
\* to the destination: 'missed' exactly when the previous one was within 200 m and
\* the current one is not, otherwise 'now' within 200 m, 'prepare' within 400 m and
\* none beyond; and nothing else ever sets a banner
Activated == client.role \in {"premium", "admin"} \/ client.optedIn

DropoffPoll ==
    /\ client.activeTrip /\ client'.activeTrip
    /\ "monitor4" \in client.timers /\ "monitor4" \in client'.timers
    /\ client'.prevDistToDest # NULL
    /\ \/ client'.prevDistToDest # client.prevDistToDest
       \/ client'.dropoffBanner # client.dropoffBanner

C35_DropoffBanner ==
    [][/\ DropoffPoll =>
              LET prev == client.prevDistToDest
                  cur == client'.prevDistToDest
              IN /\ Activated
                 /\ cur \in {client.userPosition - client.destination,
                             client.destination - client.userPosition}
                 /\ cur >= 0
                 /\ client'.dropoffBanner =
                        IF prev # NULL /\ prev <= 200 /\ cur > 200 THEN "missed"
                        ELSE IF cur <= 200 THEN "now"
                        ELSE IF cur <= 400 THEN "prepare"
                        ELSE "none"
       /\ (client'.dropoffBanner # client.dropoffBanner /\ client'.dropoffBanner # "none") =>
              DropoffPoll]_vars

\* a rider who paid the opt-in has passed the stop
C35_Witness ==
    /\ client.activeTrip
    /\ client.role = "free"
    /\ client.optedIn
    /\ client.dropoffBanner = "missed"
    /\ client.prevDistToDest = 400

\* C36: after "Ignorar (5 min)" no deviation alert is raised for 300 s, whatever the
\* polls find; after more than 300 s the next far poll with the counter at 90 s or
\* more raises it again
SinceSilenced == DateNow - client.silencedAt

C36_SilencedForFiveMinutes ==
    [][/\ (client'.deviationAlert /\ ~client.deviationAlert /\ client.silencedAt # NULL) =>
              SinceSilenced >= 300
       /\ (/\ client.silencedAt # NULL
           /\ SinceSilenced > 300
           /\ client'.farRun = client.farRun + 1
           /\ client'.outOfRouteSeconds >= 90) => client'.deviationAlert]_vars

\* the alert is showing again after the window
C36_Witness ==
    /\ client.deviationAlert
    /\ client.silencedAt # NULL
    /\ SinceSilenced > 300

\* C37: of each periodic timer (and of the auto-close timeout) at most one is
\* scheduled
C37_OneTimerInstance ==
    \A name \in TimerNames : Instances(name) <= 1


====
